---------------------------- MODULE Spec2Model ----------------------------
(***************************************************************************)
(* GitGate: the rate limiter (middleware/ratelimit), the cache manager     *)
(* (github/cache) and the two release routes of createServer, as state     *)
(* machines.  Times are milliseconds as read from Date.now(); strings that *)
(* are taken apart or put together by the code (rate-limit keys, ips) are  *)
(* sequences of tokens; byte buffers are sequences of bytes 0..255.        *)
(***************************************************************************)
EXTENDS Integers, Sequences, FiniteSets, TLC

VARIABLES
    now,          \* the clock Date.now() reads
    limit,        \* RateLimiter.requestsPerMinute
    limits,       \* RateLimiter.limits: key -> RateLimitState (a Map: its domain grows)
    lastConsume,  \* history: the last consume call, its time and its result
    firstWindow,  \* history: per key, the results of the calls made in the key's first window
    lockHist,     \* history: per key, the durations of the last two lockouts set
    admitLog,     \* history: per key, the times of the calls admitted in the 60 s up to
                  \* the key's last admitted call
    ttl,          \* CacheManager.ttl (seconds)
    files,        \* the cache directory: cache key -> file content
    lastSet,      \* history: the last set() or clear(): its key, its bytes, how the write went
    lastGet,      \* history: the last get() since then: its result, the file before and after
    method,       \* config.auth.method
    authConfigOk, \* whether the adapter finds its required configuration values
    reqs,         \* the request tasks: where each is suspended, and what it did so far
    arrivals,     \* how many requests have arrived
    lastDone,     \* the request answered last: its response and what it did
    stores,       \* history: per cache key, the bytes last stored by a request, and when
    admitted,     \* history: per rate-limit key, the window last consumed in and the
                  \* number of requests admitted in it
    config,       \* the configuration values the trust adapters read
    startup,      \* whether validateConfig has run, and how it ended
    lastAuth,     \* history: the last direct call of a trust adapter and its result
    signing,      \* config.signing: whether enabled, and the state of the key file
    assetSigner,  \* createServer's assetSigner: null, or the signer and the key text it read
    lastResolve,  \* history: a call of resolveSafePath, its arguments and its result
    lastPeek,     \* history: the last call of getRemainingRequests or getResetTime
    task          \* a request task followed await by await, with its timers

limVars == <<limit, limits, lastConsume, firstWindow, lockHist, admitLog>>
cacheVars == <<ttl, files, lastSet, lastGet>>
adapterVars == <<config, startup, lastAuth>>
signVars == <<signing, assetSigner>>
pathVars == <<lastResolve>>
peekVars == <<lastPeek>>
taskVars == <<task>>
setupVars == <<method, authConfigOk, adapterVars, signVars, pathVars, peekVars, taskVars>>
pipeVars == <<setupVars, reqs, arrivals, lastDone, stores, admitted>>
vars == <<now, limVars, cacheVars, pipeVars>>

(***************************************************************************)
(* Bounds of the model.                                                    *)
(***************************************************************************)
MaxLimit == 2      \* limits 1..MaxLimit are tried (the server uses 60)
MaxTicks == 5      \* the clock advances at most this many ticks
MaxTtlTicks == 1   \* cache TTLs of 0..MaxTtlTicks ticks are tried
MaxCacheTicks == 2 \* the clock advances at most this many ticks while the cache is exercised alone
MaxPipeTicks == 1  \* the clock advances at most this many ticks while requests are served
MaxLockTicks == 7  \* the clock is followed this many ticks after the last consume
MaxWaitTicks == 3  \* the length of an await is counted up to this many ticks
MaxCalls == 3      \* projection calls made in one run of the limiter
MaxPathLen == 4    \* paths of up to this many characters are resolved
MaxArrivals == 2   \* at most this many requests arrive

(***************************************************************************)
(* Program constants.                                                      *)
(***************************************************************************)
WindowMs == 60000
BlockStepMs == 60000
TimeoutMs == 30000
MaxBlockMs == 15 * 60 * 1000

\* One tick of the model's clock: a third of a rate-limit window, so that a call
\* can fall inside a window, on its edge and past it, and inside a lockout that
\* outlasts the window.
TickMs == WindowMs \div 3
MaxNow == MaxTicks * TickMs
Times == {i * TickMs : i \in 0..MaxTicks}

Max(a, b) == IF a >= b THEN a ELSE b
Min(a, b) == IF a <= b THEN a ELSE b

(***************************************************************************)
(* Rate-limit keys.  An ip address is one token of a string.               *)
(***************************************************************************)
\* `anon:${anonKey}`
AnonId(ip) == <<"a", "n", "o", "n", ":">> \o ip
\* the keys the limiter is exercised with on its own
LimiterKeys == {<<"d", "e", "v", "1">>, AnonId(<<"0.0.0.0">>)}

(***************************************************************************)
(* Input validation (utils/validation).  A string is a sequence of         *)
(* one-character strings.                                                  *)
(***************************************************************************)
Lower == {"a", "b", "c", "d", "e", "f", "g", "h", "i", "j", "k", "l", "m",
          "n", "o", "p", "q", "r", "s", "t", "u", "v", "w", "x", "y", "z"}
Upper == {"A", "B", "C", "D", "E", "F", "G", "H", "I", "J", "K", "L", "M",
          "N", "O", "P", "Q", "R", "S", "T", "U", "V", "W", "X", "Y", "Z"}
Digit == {"0", "1", "2", "3", "4", "5", "6", "7", "8", "9"}
Alnum == Lower \cup Upper \cup Digit

OwnerRepoChars == Alnum \cup {"_", "-"}            \* OWNER_REPO_PATTERN
TagChars == Alnum \cup {".", "_", "-"}             \* TAG_PATTERN
SemverIdChars == Alnum \cup {"-"}                  \* [0-9A-Za-z-] of SEMVER_PATTERN
AssetChars == Alnum \cup {".", "_", "+", "(", ")", " ", "-"}   \* ASSET_PATTERN
DeviceIdChars == Alnum \cup {".", "_", "-"}        \* validateDeviceId

MAX_OWNER_REPO_LENGTH == 100
MAX_VERSION_LENGTH == 200
MAX_ASSET_LENGTH == 200

\* what a validator returns for a rejected value (null); an accepted value is
\* never empty
Rejected == <<>>

AllIn(str, chars) == \A i \in 1..Len(str) : str[i] \in chars

\* String.prototype.trim, for the blank " "
RECURSIVE TrimStart(_)
TrimStart(str) == IF Len(str) > 0 /\ str[1] = " " THEN TrimStart(Tail(str)) ELSE str
RECURSIVE TrimEnd(_)
TrimEnd(str) ==
    IF Len(str) > 0 /\ str[Len(str)] = " " THEN TrimEnd(SubSeq(str, 1, Len(str) - 1)) ELSE str
Trim(str) == TrimEnd(TrimStart(str))

\* the index of the first occurrence of character c in str, or 0
RECURSIVE IndexFrom(_, _, _)
IndexFrom(str, c, i) ==
    IF i > Len(str) THEN 0 ELSE IF str[i] = c THEN i ELSE IndexFrom(str, c, i + 1)
IndexOf(str, c) == IndexFrom(str, c, 1)

\* str.split(c)
RECURSIVE Split(_, _)
Split(str, c) ==
    LET i == IndexOf(str, c) IN
    IF i = 0 THEN <<str>>
    ELSE <<SubSeq(str, 1, i - 1)>> \o Split(SubSeq(str, i + 1, Len(str)), c)

\* str.includes("..")
HasDotDot(str) == \E i \in 1..(Len(str) - 1) : str[i] = "." /\ str[i + 1] = "."

ValidateOwnerRepo(value) ==
    LET trimmed == Trim(value) IN
    IF Len(trimmed) = 0 \/ Len(trimmed) > MAX_OWNER_REPO_LENGTH THEN Rejected
    ELSE IF ~AllIn(trimmed, OwnerRepoChars) THEN Rejected
    ELSE trimmed

\* (0|[1-9]\d*)
IsNumericId(str) == Len(str) > 0 /\ AllIn(str, Digit) /\ (Len(str) = 1 \/ str[1] # "0")
\* [0-9A-Za-z-]+(?:\.[0-9A-Za-z-]+)*
IsDottedIds(str) ==
    \A i \in 1..Len(Split(str, ".")) :
        Len(Split(str, ".")[i]) > 0 /\ AllIn(Split(str, ".")[i], SemverIdChars)

\* SEMVER_PATTERN.test(str)
MatchesSemver(str) ==
    LET body == IF Len(str) > 0 /\ str[1] = "v" THEN Tail(str) ELSE str
        plus == IndexOf(body, "+")
        head == IF plus = 0 THEN body ELSE SubSeq(body, 1, plus - 1)
        build == IF plus = 0 THEN <<>> ELSE SubSeq(body, plus + 1, Len(body))
        dash == IndexOf(head, "-")
        core == IF dash = 0 THEN head ELSE SubSeq(head, 1, dash - 1)
        pre == IF dash = 0 THEN <<>> ELSE SubSeq(head, dash + 1, Len(head))
        nums == Split(core, ".")
    IN /\ Len(nums) = 3
       /\ \A i \in 1..3 : IsNumericId(nums[i])
       /\ dash # 0 => IsDottedIds(pre)
       /\ plus # 0 => IsDottedIds(build)

ValidateVersion(value) ==
    LET trimmed == Trim(value) IN
    IF Len(trimmed) = 0 \/ Len(trimmed) > MAX_VERSION_LENGTH THEN Rejected
    ELSE IF MatchesSemver(trimmed) \/ AllIn(trimmed, TagChars) THEN trimmed
    ELSE Rejected

ValidateAssetName(value) ==
    LET trimmed == Trim(value) IN
    IF Len(trimmed) = 0 \/ Len(trimmed) > MAX_ASSET_LENGTH THEN Rejected
    ELSE IF IndexOf(trimmed, "/") # 0 \/ IndexOf(trimmed, "\\") # 0 \/ HasDotDot(trimmed)
    THEN Rejected
    ELSE IF ~AllIn(trimmed, AssetChars) THEN Rejected
    ELSE trimmed

\* (a variant that checks the length only)
ValidateDeviceIdAnyChars(value) ==
    LET trimmed == Trim(value) IN
    IF Len(value) = 0 THEN Rejected
    ELSE IF Len(trimmed) = 0 \/ Len(trimmed) > MAX_OWNER_REPO_LENGTH THEN Rejected
    ELSE trimmed

ValidateDeviceId(value) ==
    LET trimmed == Trim(value) IN
    IF Len(value) = 0 THEN Rejected
    ELSE IF Len(trimmed) = 0 \/ Len(trimmed) > MAX_OWNER_REPO_LENGTH THEN Rejected
    ELSE IF ~AllIn(trimmed, DeviceIdChars) THEN Rejected
    ELSE trimmed

\* node:net isIP, for the addresses the model uses (whole addresses are tokens)
IpLiterals == {"10.0.0.1", "0.0.0.0", "::1"}
IsIP(str) == Len(str) = 1 /\ str[1] \in IpLiterals

\* parseForwardedFor(value); an absent header is the empty sequence
ParseForwardedFor(value) ==
    LET first == Trim(Split(value, ",")[1])
        close == IndexOf(first, "]")
        inner == IF close = 0 THEN <<>> ELSE SubSeq(first, 2, close - 1)
        ipv4Port == Split(first, ":")[1]
    IN IF Len(value) = 0 THEN <<"0.0.0.0">>
       ELSE IF Len(first) = 0 THEN <<"0.0.0.0">>
       ELSE IF IsIP(first) THEN first
       ELSE IF first[1] = "[" /\ close # 0 /\ IsIP(inner) THEN inner
       ELSE IF IsIP(ipv4Port) THEN ipv4Port
       ELSE <<"0.0.0.0">>

(***************************************************************************)
(* RateLimiter                                                             *)
(***************************************************************************)
\* Map.set(key, value)
MapSet(m, k, v) == [x \in DOMAIN m \cup {k} |-> IF x = k THEN v ELSE m[x]]

\* (a variant in which the first request of a key is not counted)
NewStateUncounted(t) ==
    [requests |-> 0, reset_at |-> t + WindowMs, blocked_until |-> 0, violations |-> 0]

\* blocked_until is optional: 0 stands for undefined (both are falsy in
\* `state.blocked_until && now < state.blocked_until`).
NewState(t) == [requests |-> 1, reset_at |-> t + WindowMs, blocked_until |-> 0, violations |-> 0]

BlockMs(violations) == Min(MaxBlockMs, BlockStepMs * violations)

\* (a variant that forgives nothing when the window restarts)
WindowResetKeepingViolations(state, t) ==
    [state EXCEPT !.requests = 1,
                  !.reset_at = t + WindowMs]

\* the window-expired branch: a fresh window, one violation forgiven
WindowReset(state, t) ==
    [state EXCEPT !.requests = 1,
                  !.reset_at = t + WindowMs,
                  !.violations = Max(0, state.violations - 1)]

\* (a variant that sizes the lockout by the violations counted before this one)
ViolateByEarlierCount(state, t) ==
    [state EXCEPT !.violations = state.violations + 1,
                  !.blocked_until = t + BlockMs(state.violations)]

\* the at-limit branch: one more violation, and a lockout
Violate(state, t) ==
    [state EXCEPT !.violations = state.violations + 1,
                  !.blocked_until = t + BlockMs(state.violations + 1)]

\* (a variant whose under-limit branch computes the count but loses the write,
\* as a read-modify-write that raced would)
ConsumeInternalLostUpdate(lims, lim, key, t) ==
    IF key \notin DOMAIN lims
    THEN [limits |-> MapSet(lims, key, NewState(t)),
          allowed |-> TRUE, remaining |-> Max(0, lim - 1), reset_at |-> t + WindowMs,
          branch |-> "new"]
    ELSE LET state == lims[key] IN
         IF state.blocked_until # 0 /\ t < state.blocked_until
         THEN [limits |-> lims,
               allowed |-> FALSE, remaining |-> 0, reset_at |-> state.blocked_until,
               branch |-> "blocked"]
         ELSE IF t > state.reset_at
         THEN [limits |-> MapSet(lims, key, WindowReset(state, t)),
               allowed |-> TRUE, remaining |-> Max(0, lim - 1), reset_at |-> t + WindowMs,
               branch |-> "reset"]
         ELSE IF state.requests < lim
         THEN [limits |-> lims,
               allowed |-> TRUE, remaining |-> Max(0, lim - (state.requests + 1)),
               reset_at |-> state.reset_at,
               branch |-> "under"]
         ELSE [limits |-> MapSet(lims, key, Violate(state, t)),
               allowed |-> FALSE, remaining |-> 0,
               reset_at |-> Violate(state, t).blocked_until,
               branch |-> "violation"]

\* (a variant whose locked branch counts the denied call as one more violation
\* and restarts the lockout)
ConsumeInternalExtendingLockout(lims, lim, key, t) ==
    IF key \notin DOMAIN lims
    THEN [limits |-> MapSet(lims, key, NewState(t)),
          allowed |-> TRUE, remaining |-> Max(0, lim - 1), reset_at |-> t + WindowMs,
          branch |-> "new"]
    ELSE LET state == lims[key] IN
         IF state.blocked_until # 0 /\ t < state.blocked_until
         THEN [limits |-> MapSet(lims, key, Violate(state, t)),
               allowed |-> FALSE, remaining |-> 0, reset_at |-> state.blocked_until,
               branch |-> "blocked"]
         ELSE IF t > state.reset_at
         THEN [limits |-> MapSet(lims, key, WindowReset(state, t)),
               allowed |-> TRUE, remaining |-> Max(0, lim - 1), reset_at |-> t + WindowMs,
               branch |-> "reset"]
         ELSE IF state.requests < lim
         THEN [limits |-> MapSet(lims, key, [state EXCEPT !.requests = state.requests + 1]),
               allowed |-> TRUE, remaining |-> Max(0, lim - (state.requests + 1)),
               reset_at |-> state.reset_at,
               branch |-> "under"]
         ELSE [limits |-> MapSet(lims, key, Violate(state, t)),
               allowed |-> FALSE, remaining |-> 0,
               reset_at |-> Violate(state, t).blocked_until,
               branch |-> "violation"]

\* (a variant whose lockout test is `if (state.blocked_until)`)
ConsumeInternalLockedWhileSet(lims, lim, key, t) ==
    IF key \notin DOMAIN lims
    THEN [limits |-> MapSet(lims, key, NewState(t)),
          allowed |-> TRUE, remaining |-> Max(0, lim - 1), reset_at |-> t + WindowMs,
          branch |-> "new"]
    ELSE LET state == lims[key] IN
         IF state.blocked_until # 0
         THEN [limits |-> lims,
               allowed |-> FALSE, remaining |-> 0, reset_at |-> state.blocked_until,
               branch |-> "blocked"]
         ELSE IF t > state.reset_at
         THEN [limits |-> MapSet(lims, key, WindowReset(state, t)),
               allowed |-> TRUE, remaining |-> Max(0, lim - 1), reset_at |-> t + WindowMs,
               branch |-> "reset"]
         ELSE IF state.requests < lim
         THEN [limits |-> MapSet(lims, key, [state EXCEPT !.requests = state.requests + 1]),
               allowed |-> TRUE, remaining |-> Max(0, lim - (state.requests + 1)),
               reset_at |-> state.reset_at,
               branch |-> "under"]
         ELSE [limits |-> MapSet(lims, key, Violate(state, t)),
               allowed |-> FALSE, remaining |-> 0,
               reset_at |-> Violate(state, t).blocked_until,
               branch |-> "violation"]

\* consumeInternal(deviceId) at clock reading t: the new map and the result
ConsumeInternal(lims, lim, key, t) ==
    IF key \notin DOMAIN lims
    THEN [limits |-> MapSet(lims, key, NewState(t)),
          allowed |-> TRUE, remaining |-> Max(0, lim - 1), reset_at |-> t + WindowMs,
          branch |-> "new"]
    ELSE LET state == lims[key] IN
         IF state.blocked_until # 0 /\ t < state.blocked_until
         THEN [limits |-> lims,
               allowed |-> FALSE, remaining |-> 0, reset_at |-> state.blocked_until,
               branch |-> "blocked"]
         ELSE IF t > state.reset_at
         THEN [limits |-> MapSet(lims, key, WindowReset(state, t)),
               allowed |-> TRUE, remaining |-> Max(0, lim - 1), reset_at |-> t + WindowMs,
               branch |-> "reset"]
         ELSE IF state.requests < lim
         THEN [limits |-> MapSet(lims, key, [state EXCEPT !.requests = state.requests + 1]),
               allowed |-> TRUE, remaining |-> Max(0, lim - (state.requests + 1)),
               reset_at |-> state.reset_at,
               branch |-> "under"]
         ELSE [limits |-> MapSet(lims, key, Violate(state, t)),
               allowed |-> FALSE, remaining |-> 0,
               reset_at |-> Violate(state, t).blocked_until,
               branch |-> "violation"]

\* consume(deviceId): the result the caller sees
Consume(lims, lim, key, t) ==
    LET r == ConsumeInternal(lims, lim, key, t) IN
    [limits |-> r.limits, allowed |-> r.allowed, limit |-> lim,
     remaining |-> r.remaining, reset_at |-> r.reset_at, branch |-> r.branch]

\* isAllowed(deviceId)
IsAllowed(lims, lim, key, t) == ConsumeInternal(lims, lim, key, t).allowed

\* getRemainingRequests(deviceId) at clock reading t
GetRemainingRequests(lims, lim, key, t) ==
    IF key \notin DOMAIN lims \/ t > lims[key].reset_at
    THEN lim
    ELSE IF lims[key].blocked_until # 0 /\ t < lims[key].blocked_until
    THEN 0
    ELSE Max(0, lim - lims[key].requests)

\* getResetTime(deviceId) at clock reading t
GetResetTime(lims, key, t) ==
    IF key \notin DOMAIN lims
    THEN t
    ELSE IF lims[key].blocked_until # 0 /\ lims[key].blocked_until > lims[key].reset_at
    THEN lims[key].blocked_until
    ELSE lims[key].reset_at

\* (a variant of getRemainingRequests that creates the state of a key it does
\* not know, as a lazily initialising lookup would)
RemainingCallCreatingState(lims, lim, key, t) ==
    [limits |-> IF key \in DOMAIN lims THEN lims ELSE MapSet(lims, key, NewState(t)),
     value |-> GetRemainingRequests(lims, lim, key, t)]

\* a call of getRemainingRequests: the map after it, and the value returned
RemainingCall(lims, lim, key, t) ==
    [limits |-> lims, value |-> GetRemainingRequests(lims, lim, key, t)]

\* a call of getResetTime: the map after it, and the value returned
ResetTimeCall(lims, key, t) ==
    [limits |-> lims, value |-> GetResetTime(lims, key, t)]

(***************************************************************************)
(* CacheManager                                                            *)
(***************************************************************************)
\* Buffers the cache is exercised with: 0, 1, 2 and 4 bytes, so that every
\* base64 padding case occurs.
Payloads == {<<>>, <<77>>, <<1, 255>>, <<72, 105, 33, 0>>}

\* createHash("sha256").update(x).digest("hex"), taken to be collision free
Sha256(x) == <<"sha256", x>>

\* getCachePath(key): the file is named by the hash of the key
GetCachePath(key) == <<"cache", Sha256(key)>>

\* data.toString("base64"): sextets 0..63, and 64 for the padding '='
RECURSIVE Base64Encode(_)
Base64Encode(b) ==
    IF Len(b) = 0 THEN <<>>
    ELSE IF Len(b) = 1 THEN <<b[1] \div 4, (b[1] % 4) * 16, 64, 64>>
    ELSE IF Len(b) = 2
    THEN <<b[1] \div 4, (b[1] % 4) * 16 + b[2] \div 16, (b[2] % 16) * 4, 64>>
    ELSE <<b[1] \div 4, (b[1] % 4) * 16 + b[2] \div 16,
           (b[2] % 16) * 4 + b[3] \div 64, b[3] % 64>>
         \o Base64Encode(SubSeq(b, 4, Len(b)))

\* Buffer.from(s, "base64")
RECURSIVE Base64Decode(_)
Base64Decode(s) ==
    IF Len(s) < 2 THEN <<>>
    ELSE IF Len(s) = 2 \/ s[3] = 64 THEN <<s[1] * 4 + s[2] \div 16>>
    ELSE IF Len(s) = 3 \/ s[4] = 64
    THEN <<s[1] * 4 + s[2] \div 16, (s[2] % 16) * 16 + s[3] \div 4>>
    ELSE <<s[1] * 4 + s[2] \div 16, (s[2] % 16) * 16 + s[3] \div 4, (s[3] % 4) * 64 + s[4]>>
         \o Base64Decode(SubSeq(s, 5, Len(s)))

\* A file of the cache directory: JSON.stringify(entry), or a file JSON.parse
\* rejects (the empty file clear() leaves, a truncated write).
UnparsableFile == [json |-> FALSE, data |-> <<>>, checksum |-> <<>>, timestamp |-> 0, ttl |-> 0]

\* (a variant that stamps the entry in seconds, not milliseconds)
CacheEntryInSeconds(data, t, ttlSeconds) ==
    [json |-> TRUE, data |-> Base64Encode(data), checksum |-> Sha256(data),
     timestamp |-> t \div 1000, ttl |-> ttlSeconds]

\* the entry set() builds at clock reading t
CacheEntryOf(data, t, ttlSeconds) ==
    [json |-> TRUE, data |-> Base64Encode(data), checksum |-> Sha256(data),
     timestamp |-> t, ttl |-> ttlSeconds]

\* the expiry test of get() and getChecksum()
\* (a variant that treats an age equal to the TTL as expired)
ExpiredAtTtl(entry, t) == t - entry.timestamp >= entry.ttl * 1000

Expired(entry, t) == t - entry.timestamp > entry.ttl * 1000

\* (a variant in which get() takes a file it cannot parse for an empty entry)
CacheGetTrustingFile(fs, key, t) ==
    LET path == GetCachePath(key) IN
    IF path \notin DOMAIN fs THEN [files |-> fs, hit |-> FALSE, bytes |-> <<>>]
    ELSE IF ~fs[path].json THEN [files |-> fs, hit |-> TRUE, bytes |-> <<>>]
    ELSE IF Expired(fs[path], t) THEN [files |-> fs, hit |-> FALSE, bytes |-> <<>>]
    ELSE [files |-> fs, hit |-> TRUE, bytes |-> Base64Decode(fs[path].data)]

\* (a variant in which get() removes the file of an expired entry)
CacheGetEvicting(fs, key, t) ==
    LET path == GetCachePath(key) IN
    IF path \notin DOMAIN fs THEN [files |-> fs, hit |-> FALSE, bytes |-> <<>>]
    ELSE IF ~fs[path].json THEN [files |-> fs, hit |-> FALSE, bytes |-> <<>>]
    ELSE IF Expired(fs[path], t)
    THEN [files |-> [x \in DOMAIN fs \ {path} |-> fs[x]], hit |-> FALSE, bytes |-> <<>>]
    ELSE [files |-> fs, hit |-> TRUE, bytes |-> Base64Decode(fs[path].data)]

\* get(key) at clock reading t: the directory afterwards and the Buffer or null
CacheGet(fs, key, t) ==
    LET path == GetCachePath(key) IN
    IF path \notin DOMAIN fs THEN [files |-> fs, hit |-> FALSE, bytes |-> <<>>]
    ELSE IF ~fs[path].json THEN [files |-> fs, hit |-> FALSE, bytes |-> <<>>]
    ELSE IF Expired(fs[path], t) THEN [files |-> fs, hit |-> FALSE, bytes |-> <<>>]
    ELSE [files |-> fs, hit |-> TRUE, bytes |-> Base64Decode(fs[path].data)]

\* writeFileSync either writes the whole file, or throws having left the file
\* as it was, or throws having truncated it
WriteOutcomes == {"ok", "failed_untouched", "failed_truncated"}

\* (a variant that rewrites the data of an existing entry in place and keeps
\* the rest of the file, as a writer that patches the file would)
CacheSetPatchingData(fs, key, data, t, ttlSeconds, outcome) ==
    LET path == GetCachePath(key) IN
    CASE outcome = "ok" ->
             IF path \in DOMAIN fs /\ fs[path].json
             THEN MapSet(fs, path, [fs[path] EXCEPT !.data = Base64Encode(data)])
             ELSE MapSet(fs, path, CacheEntryOf(data, t, ttlSeconds))
      [] outcome = "failed_untouched" -> fs
      [] outcome = "failed_truncated" -> MapSet(fs, path, UnparsableFile)

\* set(key, data) at clock reading t
CacheSet(fs, key, data, t, ttlSeconds, outcome) ==
    LET path == GetCachePath(key) IN
    CASE outcome = "ok" -> MapSet(fs, path, CacheEntryOf(data, t, ttlSeconds))
      [] outcome = "failed_untouched" -> fs
      [] outcome = "failed_truncated" -> MapSet(fs, path, UnparsableFile)

\* (a variant of getChecksum() without the expiry test)
CacheGetChecksumNoExpiry(fs, key, t) ==
    LET path == GetCachePath(key) IN
    IF path \notin DOMAIN fs THEN [hit |-> FALSE, checksum |-> <<>>]
    ELSE IF ~fs[path].json THEN [hit |-> FALSE, checksum |-> <<>>]
    ELSE [hit |-> TRUE, checksum |-> fs[path].checksum]

\* getChecksum(key) at clock reading t: the stored digest or null
CacheGetChecksum(fs, key, t) ==
    LET path == GetCachePath(key) IN
    IF path \notin DOMAIN fs THEN [hit |-> FALSE, checksum |-> <<>>]
    ELSE IF ~fs[path].json THEN [hit |-> FALSE, checksum |-> <<>>]
    ELSE IF Expired(fs[path], t) THEN [hit |-> FALSE, checksum |-> <<>>]
    ELSE [hit |-> TRUE, checksum |-> fs[path].checksum]

\* clear(key): an existing file is overwritten with the empty string
CacheClear(fs, key, outcome) ==
    LET path == GetCachePath(key) IN
    IF path \in DOMAIN fs /\ outcome # "failed_untouched"
    THEN MapSet(fs, path, UnparsableFile)
    ELSE fs

\* cache keys of the two routes
\* `releases:${owner}:${repo}`
ReleasesKey(owner, repo) == <<"releases", ":">> \o owner \o <<":">> \o repo
\* `asset:${owner}:${repo}:${version}:${assetName}`
AssetKey(owner, repo, version, asset) ==
    <<"asset", ":">> \o owner \o <<":">> \o repo \o <<":">> \o version \o <<":">> \o asset
CacheKeys == {ReleasesKey(<<"a">>, <<"t">>),
              AssetKey(<<"a">>, <<"t">>, <<"v", "1">>, <<"f", ".", "t", "g", "z">>)}

NoSet == [op |-> "none", key |-> <<>>, bytes |-> <<>>, at |-> 0, outcome |-> "ok",
          overwrote |-> FALSE]

NoGet == [key |-> <<>>, hit |-> FALSE, bytes |-> <<>>, checksum |-> <<>>, op |-> "none",
          had |-> FALSE, before |-> UnparsableFile, hadAfter |-> FALSE, after |-> UnparsableFile]

\* history: what get(key) finds at the key's path: no file, a file that
\* cannot be read as an entry, or an entry
FoundAt(fs, key) ==
    IF GetCachePath(key) \notin DOMAIN fs THEN "absent"
    ELSE IF ~fs[GetCachePath(key)].json THEN "unparsable"
    ELSE "entry"

FileAt(fs, key) == IF GetCachePath(key) \in DOMAIN fs THEN fs[GetCachePath(key)] ELSE UnparsableFile

TtlChoices == {i * (TickMs \div 1000) : i \in 0..MaxTtlTicks}

(***************************************************************************)
(* Trust adapters and the dispatcher.  An adapter is given the validated   *)
(* request headers, whether its configuration is complete, and the answer  *)
(* the identity API will give; it yields a device, null, or throws.        *)
(***************************************************************************)
TokenChars == Alnum \cup {".", "_", "~", "=", "-"}        \* validateTokenHeader
UserChars == Alnum \cup {".", "_", "@", "+", "-"}         \* validateUserHeader
DeviceHeaderChars == Alnum \cup {".", "_", "-"}           \* validateDeviceHeader

\* an absent header is the empty sequence; a rejected one is null
ValidateHeaderValue(value) ==
    LET trimmed == Trim(value) IN
    IF Len(value) = 0 \/ Len(trimmed) = 0 THEN Rejected
    ELSE IF \E i \in 1..Len(trimmed) : trimmed[i] \in {"\r", "\n"} THEN Rejected
    ELSE trimmed

ValidateTokenHeader(value) ==
    LET token == ValidateHeaderValue(value) IN
    IF token = Rejected THEN Rejected
    ELSE IF ~AllIn(token, TokenChars) THEN Rejected
    ELSE token

ValidateUserHeader(value) ==
    LET user == ValidateHeaderValue(value) IN
    IF user = Rejected THEN Rejected
    ELSE IF ~AllIn(user, UserChars) \/ Len(user) > MAX_OWNER_REPO_LENGTH THEN Rejected
    ELSE user

ValidateDeviceHeader(value) ==
    LET device == ValidateHeaderValue(value) IN
    IF device = Rejected THEN Rejected
    ELSE IF ~AllIn(device, DeviceHeaderChars) \/ Len(device) > MAX_OWNER_REPO_LENGTH
    THEN Rejected
    ELSE device

NoDevice == [kind |-> "null", device_id |-> <<>>]
AuthThrows == [kind |-> "throw", device_id |-> <<>>]
Device(id) == [kind |-> "device", device_id |-> id]

\* history: a direct call of an adapter, what it was given and its result
AuthCall(adapter, headers, api, configOk, result) ==
    [adapter |-> adapter, headers |-> headers, api |-> api, configOk |-> configOk,
     result |-> result]
NoAuthCall ==
    AuthCall("none", [xff |-> <<>>, token |-> <<>>, user |-> <<>>, device |-> <<>>],
             [kind |-> "none", device_id |-> <<>>, devices |-> {}], TRUE, NoDevice)

\* What the identity API answers: a transport failure, a non-2xx status, a
\* body that is not the expected JSON, or a 2xx body naming a device id (Jamf)
\* and listing devices (Tailscale).
ApiAnswers ==
    {[kind |-> k, device_id |-> <<>>, devices |-> {}] :
        k \in {"network_error", "non2xx", "malformed"}}
    \cup {[kind |-> "ok", device_id |-> d, devices |-> ds] :
            d \in {<<>>, <<"d", "e", "v", "1">>, <<"d", ":", "1">>, AnonId(<<"10.0.0.1">>)},
            ds \in {{}, {<<"d", "e", "v", "1">>}}}

\* authenticateJamf(headers, config)
AuthenticateJamf(headers, configOk, api) ==
    IF ValidateTokenHeader(headers.token) = Rejected THEN NoDevice
    ELSE IF ~configOk THEN AuthThrows
    ELSE IF api.kind # "ok" THEN NoDevice
    ELSE IF ValidateDeviceId(api.device_id) = Rejected THEN NoDevice
    ELSE Device(ValidateDeviceId(api.device_id))

\* a variant of authenticateTailscale that takes the device header's word
AuthenticateTailscaleTrustingHeader(headers, configOk, api) ==
    LET tsUser == ValidateUserHeader(headers.user)
        tsDevice == ValidateDeviceHeader(headers.device)
    IN IF tsUser = Rejected \/ tsDevice = Rejected THEN NoDevice
       ELSE IF ~configOk THEN AuthThrows
       ELSE IF api.kind # "ok" THEN NoDevice
       ELSE IF ValidateDeviceId(tsDevice) = Rejected THEN NoDevice
       ELSE Device(ValidateDeviceId(tsDevice))

\* authenticateTailscale(headers, config)
AuthenticateTailscale(headers, configOk, api) ==
    LET tsUser == ValidateUserHeader(headers.user)
        tsDevice == ValidateDeviceHeader(headers.device)
    IN IF tsUser = Rejected \/ tsDevice = Rejected THEN NoDevice
       ELSE IF ~configOk THEN AuthThrows
       ELSE IF api.kind # "ok" THEN NoDevice
       ELSE IF tsDevice \notin api.devices THEN NoDevice
       ELSE IF ValidateDeviceId(tsDevice) = Rejected THEN NoDevice
       ELSE Device(ValidateDeviceId(tsDevice))

\* the loop of parseDistinguishedName: the trimmed non-empty segments between
\* unescaped "," and "/"; a backslash takes the next character literally
RECURSIVE DnSegments(_, _, _, _)
DnSegments(input, i, current, escaped) ==
    IF i > Len(input) THEN (IF Trim(current) # <<>> THEN <<Trim(current)>> ELSE <<>>)
    ELSE IF escaped THEN DnSegments(input, i + 1, Append(current, input[i]), FALSE)
    ELSE IF input[i] = "\\" THEN DnSegments(input, i + 1, current, TRUE)
    ELSE IF input[i] \in {",", "/"}
    THEN (IF Trim(current) # <<>> THEN <<Trim(current)>> ELSE <<>>)
         \o DnSegments(input, i + 1, <<>>, FALSE)
    ELSE DnSegments(input, i + 1, Append(current, input[i]), FALSE)

\* parseDistinguishedName(input), as the key=value pairs in order: a segment
\* without "=", or with an empty key or value, is skipped
RECURSIVE DnPairs(_)
DnPairs(segments) ==
    IF segments = <<>> THEN <<>>
    ELSE LET segment == Head(segments)
             index == IndexOf(segment, "=")
             key == Trim(SubSeq(segment, 1, index - 1))
             value == Trim(SubSeq(segment, index + 1, Len(segment)))
         IN IF index = 0 \/ key = <<>> \/ value = <<>> THEN DnPairs(Tail(segments))
            ELSE <<[key |-> key, value |-> value]>> \o DnPairs(Tail(segments))
ParseDistinguishedName(input) == DnPairs(DnSegments(input, 1, <<>>, FALSE))

\* subjectMap.CN?.[0]: the first value under key CN, or undefined (empty)
RECURSIVE FirstCommonName(_)
FirstCommonName(pairs) ==
    IF pairs = <<>> THEN <<>>
    ELSE IF Head(pairs).key = <<"C", "N">> THEN Head(pairs).value
    ELSE FirstCommonName(Tail(pairs))

\* parseSubjectAltNames(value): of each non-empty trimmed entry the text after
\* its first ":", dropping entries without ":" and empty texts
RECURSIVE AltNameValues(_)
AltNameValues(entries) ==
    IF entries = <<>> THEN <<>>
    ELSE LET entry == Trim(Head(entries))
             index == IndexOf(entry, ":")
             value == IF index = 0 THEN <<>> ELSE Trim(SubSeq(entry, index + 1, Len(entry)))
         IN IF entry = <<>> \/ value = <<>> THEN AltNameValues(Tail(entries))
            ELSE <<value>> \o AltNameValues(Tail(entries))
ParseSubjectAltNames(value) == IF value = <<>> THEN <<>> ELSE AltNameValues(Split(value, ","))

\* A client certificate as the handler would pass it: absent, or PEM text
\* that X509Certificate may refuse to parse, or a certificate with its
\* validity window (datesFinite: Date.parse gives numbers), its issuer's
\* key, its keyUsage (undefined, or a list), the names it carries (altNames,
\* attributes) and the separator its subject text puts between attributes.
NoCert ==
    [present |-> FALSE, parses |-> FALSE, datesFinite |-> FALSE, validFrom |-> 0, validTo |-> 0,
     signedBy |-> "none", keyUsage |-> [defined |-> FALSE, usages |-> {}],
     altNames |-> <<>>, attributes |-> <<>>, separator |-> ","]

\* X509Certificate.subjectAltName: "type:value" entries joined by ", "
RECURSIVE SubjectAltNameText(_)
SubjectAltNameText(altNames) ==
    IF altNames = <<>> THEN <<>>
    ELSE Head(altNames).type \o <<":">> \o Head(altNames).value
         \o (IF Len(altNames) > 1 THEN <<",", " ">> \o SubjectAltNameText(Tail(altNames))
             ELSE <<>>)

\* X509Certificate.subject: "key=value" attributes joined by the separator
RECURSIVE SubjectText(_, _)
SubjectText(attributes, separator) ==
    IF attributes = <<>> THEN <<>>
    ELSE Head(attributes).key \o <<"=">> \o Head(attributes).value
         \o (IF Len(attributes) > 1
             THEN <<separator>> \o SubjectText(Tail(attributes), separator)
             ELSE <<>>)

\* a variant of authenticateMTLS that looks at its CA configuration first
AuthenticateMTLSConfigFirst(clientCert, caPathSet, caReadable, t) ==
    IF ~caPathSet THEN AuthThrows ELSE NoDevice

\* a variant of authenticateMTLS that does not verify the issuer
AuthenticateMTLSUnverified(clientCert, caPathSet, caReadable, t) ==
    IF ~clientCert.present THEN NoDevice
    ELSE IF ~caPathSet THEN AuthThrows
    ELSE IF ~caReadable \/ ~clientCert.parses THEN NoDevice
    ELSE IF ~clientCert.datesFinite THEN NoDevice
    ELSE IF t < clientCert.validFrom \/ t > clientCert.validTo THEN NoDevice
    ELSE IF clientCert.keyUsage.defined
            /\ "Digital Signature" \notin clientCert.keyUsage.usages THEN NoDevice
    ELSE LET subjectMap == ParseDistinguishedName(
                               SubjectText(clientCert.attributes, clientCert.separator))
             altNames == ParseSubjectAltNames(SubjectAltNameText(clientCert.altNames))
             commonName == FirstCommonName(subjectMap)
             candidate == IF altNames # <<>> THEN altNames[1] ELSE commonName
             deviceId == ValidateDeviceId(candidate)
         IN IF deviceId = Rejected THEN NoDevice ELSE Device(deviceId)

\* authenticateMTLS(clientCert, config) at clock reading t; caPathSet: whether
\* config.ca_cert_path is set; caReadable: whether the CA file can be read and
\* parsed (a throw inside the try gives null)
AuthenticateMTLS(clientCert, caPathSet, caReadable, t) ==
    IF ~clientCert.present THEN NoDevice
    ELSE IF ~caPathSet THEN AuthThrows
    ELSE IF ~caReadable \/ ~clientCert.parses THEN NoDevice
    ELSE IF ~clientCert.datesFinite THEN NoDevice
    ELSE IF t < clientCert.validFrom \/ t > clientCert.validTo THEN NoDevice
    ELSE IF clientCert.signedBy # "ca" THEN NoDevice
    ELSE IF clientCert.keyUsage.defined
            /\ "Digital Signature" \notin clientCert.keyUsage.usages THEN NoDevice
    ELSE LET subjectMap == ParseDistinguishedName(
                               SubjectText(clientCert.attributes, clientCert.separator))
             altNames == ParseSubjectAltNames(SubjectAltNameText(clientCert.altNames))
             commonName == FirstCommonName(subjectMap)
             candidate == IF altNames # <<>> THEN altNames[1] ELSE commonName
             deviceId == ValidateDeviceId(candidate)
         IN IF deviceId = Rejected THEN NoDevice ELSE Device(deviceId)

\* the identity of an admitted anonymous caller under method "none": it is
\* identified by its client ip
OpenId(ip) == <<"o", "p", "e", "n", "-">> \o ip

\* authenticateDevice(method, headers, clientCert, config)
AuthenticateDevice(m, headers, clientCert, configOk, api) ==
    CASE m = "jamf" -> AuthenticateJamf(headers, configOk, api)
      [] m = "tailscale" -> AuthenticateTailscale(headers, configOk, api)
      [] m = "mtls" -> AuthenticateMTLS(clientCert, configOk, TRUE, 0)
      [] m = "none" -> Device(OpenId(ParseForwardedFor(headers.xff)))

(***************************************************************************)
(* resolveSafePath and the path functions of node:path it calls (POSIX).   *)
(* A path is a sequence of characters; the NUL character is written "NUL". *)
(***************************************************************************)
\* str.split(/[\\/]+/) and str.split("/"): the pieces between separators
RECURSIVE PiecesFrom(_, _, _, _)
PiecesFrom(str, seps, i, current) ==
    IF i > Len(str) THEN <<current>>
    ELSE IF str[i] \in seps THEN <<current>> \o PiecesFrom(str, seps, i + 1, <<>>)
    ELSE PiecesFrom(str, seps, i + 1, Append(current, str[i]))

\* .filter(Boolean), and the dropping of "." segments
RECURSIVE Without(_, _)
Without(pieces, dropped) ==
    IF pieces = <<>> THEN <<>>
    ELSE IF Head(pieces) \in dropped THEN Without(Tail(pieces), dropped)
    ELSE <<Head(pieces)>> \o Without(Tail(pieces), dropped)

RawSegments(str) == Without(PiecesFrom(str, {"/", "\\"}, 1, <<>>), {<<>>})

\* the directory names of a path, for a path without ".." segments
PathSegments(str) == Without(PiecesFrom(str, {"/"}, 1, <<>>), {<<>>, <<".">>})

RECURSIVE JoinSegments(_)
JoinSegments(segments) ==
    IF segments = <<>> THEN <<>>
    ELSE <<"/">> \o Head(segments) \o JoinSegments(Tail(segments))

IsAbsolute(str) == Len(str) > 0 /\ str[1] = "/"

\* path.normalize of an absolute path without ".." segments: a trailing
\* separator is kept
Normalize(str) ==
    LET segments == PathSegments(str) IN
    IF segments = <<>> THEN <<"/">>
    ELSE JoinSegments(segments) \o (IF str[Len(str)] = "/" THEN <<"/">> ELSE <<>>)

\* path.resolve(baseDir, str) for an absolute baseDir and a relative str
\* without ".." segments
Resolve(baseDir, str) ==
    LET segments == PathSegments(baseDir) \o PathSegments(str) IN
    IF segments = <<>> THEN <<"/">> ELSE JoinSegments(segments)

\* the length of the longest common prefix of two sequences
RECURSIVE CommonPrefix(_, _)
CommonPrefix(a, b) ==
    IF a = <<>> \/ b = <<>> \/ Head(a) # Head(b) THEN 0 ELSE 1 + CommonPrefix(Tail(a), Tail(b))

\* path.relative(from, to) of two absolute paths: one ".." for each
\* directory of `from` below the common part, then the rest of `to`
Relative(from, to) ==
    LET f == PathSegments(from)
        t == PathSegments(to)
        k == CommonPrefix(f, t)
        ups == [i \in 1..(Len(f) - k) |-> <<".", ".">>]
        joined == JoinSegments(ups \o SubSeq(t, k + 1, Len(t)))
    IN IF joined = <<>> THEN <<>> ELSE Tail(joined)

StartsWith(str, prefix) == Len(str) >= Len(prefix) /\ SubSeq(str, 1, Len(prefix)) = prefix

\* resolveSafePath(baseDir, inputPath): the resolved path, or null
ResolveSafePath(baseDir, inputPath) ==
    LET trimmed == Trim(inputPath)
        resolved == IF IsAbsolute(trimmed) THEN Normalize(trimmed) ELSE Resolve(baseDir, trimmed)
        rel == Relative(baseDir, resolved)
    IN IF Len(trimmed) = 0 \/ Len(trimmed) > 4096 THEN Rejected
       ELSE IF IndexOf(trimmed, "NUL") # 0 THEN Rejected
       ELSE IF \E i \in 1..Len(RawSegments(trimmed)) : RawSegments(trimmed)[i] = <<".", ".">>
       THEN Rejected
       ELSE IF ~IsAbsolute(resolved) THEN Rejected
       ELSE IF ~IsAbsolute(trimmed) /\ (rel = <<".", ".">> \/ StartsWith(rel, <<".", ".", "/">>))
       THEN Rejected
       ELSE resolved

\* history: a call of resolveSafePath
ResolveCall(state, baseDir, inputPath, result) ==
    [state |-> state, baseDir |-> baseDir, inputPath |-> inputPath, result |-> result]
NoResolve == ResolveCall("none", <<>>, <<>>, Rejected)

(***************************************************************************)
(* The configuration the trust adapters read, and validateConfig.  A text  *)
(* value that is absent is the empty sequence; a URL is a sequence of its  *)
(* parts, the scheme and the "//" being one part each.                     *)
(***************************************************************************)
\* validateHttpsUrl(value): the URL's text (URL.toString), or null
ValidateHttpsUrl(value) ==
    LET trimmed == Trim(value) IN
    IF Len(value) = 0 \/ Len(trimmed) = 0 THEN Rejected
    ELSE IF Len(trimmed) < 2 \/ trimmed[1] \notin {"https:", "http:"} \/ trimmed[2] # "//"
    THEN Rejected                                            \* new URL throws
    ELSE IF trimmed[1] # "https:" THEN Rejected
    ELSE IF IndexOf(trimmed, "@") # 0 THEN Rejected          \* username or password
    ELSE IF Len(trimmed) < 3 \/ trimmed[3] = "/" THEN Rejected   \* no hostname
    ELSE IF trimmed[Len(trimmed)] = "/" THEN trimmed ELSE Append(trimmed, "/")

\* text.replace(/\/$/, "")
StripTrailingSlash(text) ==
    IF Len(text) > 0 /\ text[Len(text)] = "/" THEN SubSeq(text, 1, Len(text) - 1) ELSE text

\* the configuration before loadConfig
NoConfig ==
    [base_ok |-> TRUE, jamf_api_url |-> <<>>, jamf_api_key |-> <<>>, jamf_api_secret |-> <<>>,
     tailscale_api_key |-> <<>>]

UrlChoices ==
    {<<>>, <<"https:", "//", "j">>, <<"https:", "//", "j", "/">>, <<"http:", "//", "j">>,
     <<"https:", "//", "u", "@", "j">>}
KeyChoices == {<<>>, <<"k">>, <<"k", "/", "1">>}
SecretChoices == {<<>>, <<"s">>}

\* base_ok: whether the values no trust adapter reads (port, host, GitHub
\* token, cache directory, key and log paths) pass their checks
ConfigChoices ==
    [base_ok : BOOLEAN, jamf_api_url : UrlChoices, jamf_api_key : KeyChoices,
     jamf_api_secret : SecretChoices, tailscale_api_key : KeyChoices]

\* validateConfig(config) for auth method m: it throws ConfigError, or
\* returns true having normalised the Jamf URL in place
ValidateConfig(m, cfg) ==
    IF ~cfg.base_ok THEN [ok |-> FALSE, config |-> cfg]
    ELSE IF m = "jamf"
    THEN IF cfg.jamf_api_url = <<>> \/ cfg.jamf_api_key = <<>>
         THEN [ok |-> FALSE, config |-> cfg]
         ELSE IF ValidateHttpsUrl(cfg.jamf_api_url) = Rejected
         THEN [ok |-> FALSE, config |-> cfg]
         ELSE [ok |-> TRUE,
               config |-> [cfg EXCEPT !.jamf_api_url =
                                          StripTrailingSlash(ValidateHttpsUrl(cfg.jamf_api_url))]]
    ELSE IF m = "tailscale"
    THEN IF cfg.tailscale_api_key = <<>>
         THEN [ok |-> FALSE, config |-> cfg]
         ELSE [ok |-> TRUE, config |-> cfg]
    ELSE [ok |-> TRUE, config |-> cfg]

\* authenticateJamf: `!apiUrl || !apiKey || !apiSecret` is false
JamfConfigComplete(cfg) ==
    /\ ValidateHttpsUrl(cfg.jamf_api_url) # Rejected
    /\ cfg.jamf_api_key # <<>>
    /\ cfg.jamf_api_secret # <<>>

\* authenticateTailscale: `!apiKey` is false
TailscaleConfigComplete(cfg) == ValidateTokenHeader(cfg.tailscale_api_key) # Rejected

\* whether the adapter of method m finds its configuration values
AdapterConfigComplete(m, cfg) ==
    CASE m = "jamf" -> JamfConfigComplete(cfg)
      [] m = "tailscale" -> TailscaleConfigComplete(cfg)
      [] OTHER -> TRUE

\* what the identity API may answer a direct adapter call: also a timeout
\* (the fetch is aborted) and a device list without the claimed device
AdapterAnswers ==
    ApiAnswers
    \cup {[kind |-> "timeout", device_id |-> <<>>, devices |-> {}]}
    \cup {[kind |-> "ok", device_id |-> <<"d", "e", "v", "1">>, devices |-> {<<"d", "e", "v", "2">>}]}

(***************************************************************************)
(* The two routes of createServer.                                         *)
(***************************************************************************)
Requests == {1, 2}

\* validated request headers (collectValidatedHeaders): forwarded-for, the
\* Jamf token, the Tailscale user and device
HeaderChoices ==
    {[xff |-> <<>>, token |-> <<>>, user |-> <<>>, device |-> <<>>],
     [xff |-> <<"10.0.0.1", ":", "8", "0">>, token |-> <<"t", "k">>, user |-> <<"u">>,
      device |-> <<"d", "e", "v", "1">>],
     [xff |-> <<"x">>, token |-> <<"t", ";">>, user |-> <<"u">>, device |-> <<"d", ":", "1">>]}

\* path parameters as the router hands them over
PathChoices ==
    {[route |-> "list", owner |-> <<"a">>, repo |-> <<"t">>, version |-> <<>>, asset |-> <<>>],
     [route |-> "list", owner |-> <<" ", "a">>, repo |-> <<"t", "/">>, version |-> <<>>,
      asset |-> <<>>],
     [route |-> "asset", owner |-> <<"a">>, repo |-> <<"t">>, version |-> <<"v", "1">>,
      asset |-> <<"f", ".", "t", "g", "z">>],
     [route |-> "asset", owner |-> <<"a">>, repo |-> <<"t">>, version |-> <<"v", "1">>,
      asset |-> <<".", ".">>],
     [route |-> "asset", owner |-> <<"a">>, repo |-> <<"t">>, version |-> <<"v", "*">>,
      asset |-> <<"f", ".", "t", "g", "z">>],
     [route |-> "asset", owner |-> <<"a", ".", "b">>, repo |-> <<"t">>, version |-> <<"v", "1">>,
      asset |-> <<"f", ".", "t", "g", "z">>]}

\* (a variant that validates owner and repo only)
PathRejectedOwnerRepoOnly(path) ==
    ValidateOwnerRepo(path.owner) = Rejected \/ ValidateOwnerRepo(path.repo) = Rejected

\* the handler's validation of its path parameters: TRUE when it throws
\* ValidationError
PathRejected(path) ==
    IF path.route = "list"
    THEN ValidateOwnerRepo(path.owner) = Rejected \/ ValidateOwnerRepo(path.repo) = Rejected
    ELSE \/ ValidateOwnerRepo(path.owner) = Rejected
         \/ ValidateOwnerRepo(path.repo) = Rejected
         \/ ValidateVersion(path.version) = Rejected
         \/ ValidateAssetName(path.asset) = Rejected

\* the validated parameters
Validated(path) ==
    [route |-> path.route,
     owner |-> ValidateOwnerRepo(path.owner),
     repo |-> ValidateOwnerRepo(path.repo),
     version |-> IF path.route = "list" THEN <<>> ELSE ValidateVersion(path.version),
     asset |-> IF path.route = "list" THEN <<>> ELSE ValidateAssetName(path.asset)]

\* cacheKey
CacheKeyOf(path) ==
    IF path.route = "list" THEN ReleasesKey(path.owner, path.repo)
    ELSE AssetKey(path.owner, path.repo, path.version, path.asset)

\* the action name passed to logAction
ActionOf(path) == IF path.route = "list" THEN "list_releases" ELSE "download_asset"

\* auditLogger.logAction(deviceId, action, resource, status, details): the
\* record handed to the audit log
LogAction(deviceId, path, status, reason, cached) ==
    [device_id |-> deviceId, action |-> ActionOf(path), resource |-> path,
     status |-> status, reason |-> reason, cached |-> cached]

\* applyRateLimitHeaders(c, limit, remaining, resetAt)
NoRateHeaders == [set |-> FALSE, limit |-> 0, remaining |-> 0, reset |-> 0]
ApplyRateLimitHeaders(lim, remaining, resetAt) ==
    [set |-> TRUE, limit |-> lim, remaining |-> remaining, reset |-> resetAt \div 1000]

\* the rate-limit step of a handler for key `id`: isAllowed at clock reading
\* t1, then getRemainingRequests and getResetTime at t2
\* (a variant that counts every caller under one shared key)
RateLimitStepSharedKey(lims, lim, id, t1, t2) ==
    LET shared == <<"*">>
        c == ConsumeInternal(lims, lim, shared, t1)
    IN [key |-> shared,
        limits |-> c.limits,
        allowed |-> c.allowed,
        window |-> c.limits[shared].reset_at,
        headers |-> ApplyRateLimitHeaders(lim, GetRemainingRequests(c.limits, lim, shared, t2),
                                          GetResetTime(c.limits, shared, t2))]

RateLimitStep(lims, lim, id, t1, t2) ==
    LET c == ConsumeInternal(lims, lim, id, t1) IN
    [key |-> id,
     limits |-> c.limits,
     allowed |-> c.allowed,
     window |-> IF id \in DOMAIN c.limits THEN c.limits[id].reset_at ELSE 0,
     headers |-> ApplyRateLimitHeaders(lim, GetRemainingRequests(c.limits, lim, id, t2),
                                       GetResetTime(c.limits, id, t2))]

\* the key the unauthenticated branch consumes
AnonKeyOf(headers) == AnonId(ParseForwardedFor(headers.xff))

\* what the Release Source serves
UpstreamPayloads == {<<1, 255>>, <<72, 105, 33, 0>>}

\* what octokit answers the client's call: "error" is a rejected promise
\* (transport error, timeout, non-2xx status, a body that cannot be mapped)
ReleaseResponses == {"error", "without_asset", "with_asset"}
ListResponses == {"error", "empty", "some"}
DownloadResponses == {"error", "other", "bytes"}

\* GitHubClient.getRelease: null for any error, else the mapped release
GetRelease(resp) == IF resp = "error" THEN "null" ELSE resp

\* GitHubClient.listReleases: [] for any error, else the mapped releases
ListReleases(resp) == IF resp = "some" THEN "some" ELSE "empty"

\* (a variant of the client that turns a failed download into an empty buffer)
DownloadAssetEmptyOnError(resp, data) ==
    IF resp = "bytes" THEN [null |-> FALSE, data |-> data] ELSE [null |-> FALSE, data |-> <<>>]

\* GitHubClient.downloadAsset: the bytes, or null for any error and for data
\* that is neither a Buffer, an ArrayBuffer nor a string
DownloadAsset(resp, data) ==
    IF resp = "bytes" THEN [null |-> FALSE, data |-> data] ELSE [null |-> TRUE, data |-> <<>>]

\* history: a call of the Release Source client and octokit's answer to it
SourceCall(call, resp) == [call |-> call, resp |-> resp]

\* config.signing: enabled, and the file at private_key_path: no path is
\* set, or the file cannot be read, or it holds text that is no private key,
\* or it holds the private key
NoSigning == [enabled |-> FALSE, keyFile |-> "unset"]
SigningChoices ==
    {NoSigning, [enabled |-> FALSE, keyFile |-> "key"], [enabled |-> TRUE, keyFile |-> "unset"],
     [enabled |-> TRUE, keyFile |-> "unreadable"], [enabled |-> TRUE, keyFile |-> "garbage"],
     [enabled |-> TRUE, keyFile |-> "key"]}

\* createServer: assetSigner stays null unless signing is enabled, a path is
\* set and the AssetSigner constructor (readFileSync) does not throw; it then
\* holds the file's text
LoadSigner(cfg) ==
    IF cfg.enabled /\ cfg.keyFile # "unset" /\ cfg.keyFile # "unreadable" THEN cfg.keyFile
    ELSE "null"

\* AssetSigner.sign(data): the detached signature of data; createSign's
\* sign throws when the key text is no private key
SignThrows(signer) == signer = "garbage"
Sign(signer, data) == <<"rsa-sha256", signer, data>>

\* the X-Signature-RSA-SHA256 header of a response
NoSignatureHeader == [set |-> FALSE, value |-> <<>>]
SignatureHeader(signer, data) ==
    IF signer = "null" THEN NoSignatureHeader ELSE [set |-> TRUE, value |-> Sign(signer, data)]

\* the X-Checksum-SHA256 header of a response
NoChecksumHeader == [set |-> FALSE, value |-> <<>>]
ChecksumHeader(value) == [set |-> TRUE, value |-> value]

\* a request task before it starts; n, arrived, readAt, seen, found, wrote,
\* over and calls are history: the request's arrival number and time, the
\* time of its cache read and the file it found, how its cache write went and
\* the file it wrote over, and the answers the Release Source gave it
IdleRequest ==
    [pc |-> "idle", path |-> [route |-> "none", owner |-> <<>>, repo |-> <<>>,
                              version |-> <<>>, asset |-> <<>>],
     headers |-> [xff |-> <<>>, token |-> <<>>, user |-> <<>>, device |-> <<>>],
     auth |-> "none", device |-> <<>>, status |-> 0, audits |-> <<>>, consumed |-> <<>>,
     rate |-> NoRateHeaders, cacheReads |-> 0, cacheWrites |-> 0, upstream |-> 0,
     body |-> <<>>, checksum |-> NoChecksumHeader, signature |-> NoSignatureHeader,
     n |-> 0, arrived |-> 0, readAt |-> 0, seen |-> UnparsableFile, calls |-> <<>>,
     found |-> "none", wrote |-> "none", over |-> UnparsableFile]

\* the clock readings a later Date.now() of the same synchronous step may give
ClockAfter(t) == IF t < MaxPipeTicks * TickMs THEN {t, t + TickMs} ELSE {t}

\* history: the requests admitted per key in the window last consumed in
AdmittedAfter(adm, step) ==
    IF ~step.allowed THEN adm
    ELSE IF step.key \in DOMAIN adm /\ adm[step.key].window = step.window
    THEN MapSet(adm, step.key, [window |-> step.window, count |-> adm[step.key].count + 1])
    ELSE MapSet(adm, step.key, [window |-> step.window, count |-> 1])

\* history: the key a rate-limit step consumed, and whether it was admitted
Consumed(step) == [key |-> step.key, allowed |-> step.allowed]

\* the unauthenticated branch (`if (!device)`), after its rate-limit step on
\* the anonymous key: 429 without an audit record, or an audit record and 401
\* (a variant that lets an unrecognised caller through while under its limit)
AnonOutcomeAdmitting(q, id, step) ==
    IF ~step.allowed
    THEN [q EXCEPT !.pc = "done", !.status = 429, !.rate = step.headers,
                   !.consumed = Append(@, Consumed(step))]
    ELSE [q EXCEPT !.pc = IF q.path.route = "list" THEN "list" ELSE "release",
                   !.rate = step.headers, !.consumed = Append(@, Consumed(step)),
                   !.cacheReads = @ + 1, !.upstream = @ + 1]

\* (a variant that sets the rate-limit headers on the 429 only)
AnonOutcomeBare401(q, id, step) ==
    IF ~step.allowed
    THEN [q EXCEPT !.pc = "done", !.status = 429, !.rate = step.headers,
                   !.consumed = Append(@, Consumed(step))]
    ELSE [q EXCEPT !.pc = "done", !.status = 401,
                   !.consumed = Append(@, Consumed(step)),
                   !.audits = Append(@, LogAction(<<"unknown">>, q.path, "failure", "", FALSE))]

\* (a variant that answers 401 whatever the limiter said)
AnonOutcomeUnauthorizedFirst(q, id, step) ==
    [q EXCEPT !.pc = "done", !.status = 401, !.rate = step.headers,
              !.consumed = Append(@, Consumed(step)),
              !.audits = Append(@, LogAction(<<"unknown">>, q.path, "failure", "", FALSE))]

AnonOutcome(q, id, step) ==
    IF ~step.allowed
    THEN [q EXCEPT !.pc = "done", !.status = 429, !.rate = step.headers,
                   !.consumed = Append(@, Consumed(step))]
    ELSE [q EXCEPT !.pc = "done", !.status = 401, !.rate = step.headers,
                   !.consumed = Append(@, Consumed(step)),
                   !.audits = Append(@, LogAction(<<"unknown">>, q.path, "failure", "", FALSE))]

\* (a variant that denies a device without an audit record, as the anonymous
\* branch does)
DeniedOutcomeSilent(q, id, step) ==
    [q EXCEPT !.pc = "done", !.status = 429, !.rate = step.headers, !.device = id,
              !.consumed = Append(@, Consumed(step))]

\* `if (!allowed)` for a device: an audit record, then RateLimitError (429)
DeniedOutcome(q, id, step) ==
    [q EXCEPT !.pc = "done", !.status = 429, !.rate = step.headers, !.device = id,
              !.consumed = Append(@, Consumed(step)),
              !.audits = Append(@, LogAction(id, q.path, "failure", "rate_limited", FALSE))]

\* `if (cached)`: the cached bytes are served
\* (the asset route repeats the stored checksum, `checksum || ""`)
HitOutcome(q, id, step, bytes, checksum) ==
    LET read == [q EXCEPT !.pc = "done", !.rate = step.headers, !.device = id,
                          !.consumed = Append(@, Consumed(step)), !.cacheReads = @ + 1,
                          !.checksum =
                              IF q.path.route = "asset"
                              THEN ChecksumHeader(IF checksum.hit THEN checksum.checksum
                                                  ELSE <<>>)
                              ELSE NoChecksumHeader]
    IN IF q.path.route = "asset" /\ SignThrows(assetSigner)
       THEN [read EXCEPT !.status = 500]
       ELSE [read EXCEPT !.status = 200, !.body = bytes,
                         !.signature = IF q.path.route = "asset"
                                       THEN SignatureHeader(assetSigner, bytes)
                                       ELSE NoSignatureHeader,
                         !.audits = Append(@, LogAction(id, q.path, "success", "", TRUE))]

\* a miss: the handler awaits listReleases / getRelease
MissOutcome(q, id, step) ==
    [q EXCEPT !.pc = IF q.path.route = "list" THEN "list" ELSE "release",
              !.rate = step.headers, !.device = id,
              !.consumed = Append(@, Consumed(step)), !.cacheReads = @ + 1, !.upstream = @ + 1]

\* a terminal failure after the Release Source answered
FailOutcome(q, status, reason) ==
    [q EXCEPT !.pc = "done", !.status = status,
              !.audits = Append(@, LogAction(q.device, q.path, "failure", reason, FALSE))]

\* downloadAsset gave null: the handler throws ExternalServiceError (a variant
\* answers as for a missing asset)
DownloadFailedOutcomeNotFound(q) == FailOutcome(q, 404, "asset_not_found")
DownloadFailedOutcome(q) == FailOutcome(q, 502, "download_failed")

\* the fetched bytes are stored and served
\* (a variant signs only what it serves from the cache)
StoreOutcomeUnsigned(q, data) ==
    [q EXCEPT !.pc = "done", !.status = 200, !.cacheWrites = @ + 1, !.body = data,
              !.checksum = IF q.path.route = "asset" THEN ChecksumHeader(Sha256(data))
                           ELSE NoChecksumHeader,
              !.audits = Append(@, LogAction(q.device, q.path, "success", "", FALSE))]
StoreOutcome(q, data) ==
    LET stored == [q EXCEPT !.pc = "done", !.cacheWrites = @ + 1,
                            !.checksum = IF q.path.route = "asset"
                                         THEN ChecksumHeader(Sha256(data))
                                         ELSE NoChecksumHeader]
    IN IF q.path.route = "asset" /\ SignThrows(assetSigner)
       THEN [stored EXCEPT !.status = 500]
       ELSE [stored EXCEPT !.status = 200, !.body = data,
                           !.signature = IF q.path.route = "asset"
                                         THEN SignatureHeader(assetSigner, data)
                                         ELSE NoSignatureHeader,
                           !.audits = Append(@, LogAction(q.device, q.path, "success", "",
                                                          FALSE))]

\* history: what a request's cacheManager.set left stored under `key`
StoresAfter(st, key, data, t, n, outcome) ==
    CASE outcome = "ok" -> MapSet(st, key, [bytes |-> data, at |-> t, n |-> n])
      [] outcome = "failed_untouched" -> st
      [] outcome = "failed_truncated" -> [k \in DOMAIN st \ {key} |-> st[k]]

(***************************************************************************)
(* History kept beside the limiter (it reads the limiter, never feeds it). *)
(***************************************************************************)
\* (headers: what getRemainingRequests and getResetTime report right after)
NoCall == [key |-> <<>>, at |-> 0, allowed |-> FALSE, remaining |-> 0, reset_at |-> 0,
           branch |-> "none", headers |-> NoRateHeaders]

\* the calls of a key's first window, from the call that created its state,
\* as long as the clock has not passed that window's reset_at
FirstWindowAfter(fw, lims, key, t, r) ==
    IF key \notin DOMAIN lims
    THEN MapSet(fw, key, [t0 |-> t, calls |-> <<[allowed |-> r.allowed, remaining |-> r.remaining]>>])
    ELSE IF key \in DOMAIN fw /\ t <= fw[key].t0 + WindowMs /\ Len(fw[key].calls) <= MaxLimit + 1
    THEN MapSet(fw, key, [fw[key] EXCEPT !.calls =
                 Append(@, [allowed |-> r.allowed, remaining |-> r.remaining])])
    ELSE fw

\* a request task that has not started: where it is suspended (pc), for how
\* long its current await has lasted (counted up to MaxWaitTicks ticks),
\* whether the timer of fetchWithTimeout is armed, and the responses it has
\* sent; anon is the key anon:<ip> of its x-forwarded-for header
IdleTask ==
    [pc |-> "idle", path |-> IdleRequest.path, headers |-> IdleRequest.headers,
     anon |-> <<>>, waited |-> 0, timer |-> FALSE, status |-> 0, responses |-> 0]

\* no projection has been called yet
NoPeek == [op |-> "none", key |-> <<>>, at |-> 0, value |-> 0, n |-> 0]

\* the durations of the last two lockouts a key was given (0: none yet)
LockHistAfter(lh, key, t, r) ==
    IF r.branch = "violation"
    THEN MapSet(lh, key, [prev |-> IF key \in DOMAIN lh THEN lh[key].last ELSE 0,
                          last |-> r.reset_at - t])
    ELSE lh

(***************************************************************************)
(* The limiter on its own: consume calls on a few keys, and the clock.     *)
(***************************************************************************)
EmptyMap == [x \in {} |-> 0]

InitLimiterVars ==
    /\ limits = EmptyMap
    /\ lastConsume = NoCall
    /\ firstWindow = EmptyMap
    /\ lockHist = EmptyMap
    /\ admitLog = EmptyMap

InitCacheVars ==
    /\ files = EmptyMap
    /\ lastSet = NoSet
    /\ lastGet = NoGet

InitPathVars == lastResolve = NoResolve

InitPeekVars == lastPeek = NoPeek

InitTaskVars == task = IdleTask

InitSignVars ==
    /\ signing = NoSigning
    /\ assetSigner = LoadSigner(NoSigning)

InitAdapterVars ==
    /\ config = NoConfig
    /\ startup = "pending"
    /\ lastAuth = NoAuthCall

InitPipeVars ==
    /\ reqs = [r \in Requests |-> IdleRequest]
    /\ arrivals = 0
    /\ lastDone = IdleRequest
    /\ stores = EmptyMap
    /\ admitted = EmptyMap

InitLimiter ==
    /\ now = 0
    /\ limit \in 1..MaxLimit
    /\ ttl = 0
    /\ method = "none"
    /\ authConfigOk = TRUE
    /\ InitLimiterVars
    /\ InitCacheVars
    /\ InitPipeVars
    /\ InitSignVars
    /\ InitPathVars
    /\ InitPeekVars
    /\ InitTaskVars
    /\ InitAdapterVars

Tick ==
    /\ now < MaxNow
    /\ now' = now + TickMs
    /\ UNCHANGED <<limVars, cacheVars, pipeVars>>

\* the times in log that lie less than 60 s before t
RECURSIVE Recent(_, _)
Recent(log, t) ==
    IF log = <<>> THEN <<>>
    ELSE IF t - Head(log) < WindowMs THEN log
    ELSE Recent(Tail(log), t)

AdmitLogAfter(al, key, t, r) ==
    IF ~r.allowed THEN al
    ELSE LET log == Append(Recent(IF key \in DOMAIN al THEN al[key] ELSE <<>>, t), t)
         IN MapSet(al, key, IF Len(log) > MaxLimit + 1 THEN Tail(log) ELSE log)

DoConsume(key) ==
    LET r == Consume(limits, limit, key, now) IN
    /\ limits' = r.limits
    /\ lastConsume' = [key |-> key, at |-> now, allowed |-> r.allowed,
                       remaining |-> r.remaining, reset_at |-> r.reset_at, branch |-> r.branch,
                       headers |-> RateLimitStep(limits, limit, key, now, now).headers]
    /\ firstWindow' = FirstWindowAfter(firstWindow, limits, key, now, r)
    /\ lockHist' = LockHistAfter(lockHist, key, now, r)
    /\ admitLog' = AdmitLogAfter(admitLog, key, now, r)
    /\ UNCHANGED <<now, limit, cacheVars, pipeVars>>

LimiterConsume == \E key \in LimiterKeys : DoConsume(key)

NextLimiter == LimiterConsume \/ Tick

SpecLimiter == InitLimiter /\ [][NextLimiter]_vars

(***************************************************************************)
(* The limiter's projections: one device consumes, and getRemainingRequests *)
(* and getResetTime are asked about that device and about a key the        *)
(* limiter never sees a consume for.                                       *)
(***************************************************************************)
DeviceKey == <<"d", "e", "v", "1">>

DeviceConsume == DoConsume(DeviceKey)

DoGetRemainingRequests(key) ==
    LET r == RemainingCall(limits, limit, key, now) IN
    /\ lastPeek.n < MaxCalls
    /\ limits' = r.limits
    /\ lastPeek' = [op |-> "getRemainingRequests", key |-> key, at |-> now,
                    value |-> r.value, n |-> lastPeek.n + 1]
    /\ UNCHANGED <<now, limit, lastConsume, firstWindow, lockHist, admitLog, cacheVars>>
    /\ UNCHANGED <<method, authConfigOk, adapterVars, signVars, pathVars, taskVars>>
    /\ UNCHANGED <<reqs, arrivals, lastDone, stores, admitted>>

DoGetResetTime(key) ==
    LET r == ResetTimeCall(limits, key, now) IN
    /\ lastPeek.n < MaxCalls
    /\ limits' = r.limits
    /\ lastPeek' = [op |-> "getResetTime", key |-> key, at |-> now,
                    value |-> r.value, n |-> lastPeek.n + 1]
    /\ UNCHANGED <<now, limit, lastConsume, firstWindow, lockHist, admitLog, cacheVars>>
    /\ UNCHANGED <<method, authConfigOk, adapterVars, signVars, pathVars, taskVars>>
    /\ UNCHANGED <<reqs, arrivals, lastDone, stores, admitted>>

RemainingRequests == \E key \in LimiterKeys : DoGetRemainingRequests(key)

ResetTime == \E key \in LimiterKeys : DoGetResetTime(key)

NextProjections == DeviceConsume \/ RemainingRequests \/ ResetTime \/ Tick

SpecProjections == InitLimiter /\ [][NextProjections]_vars

(***************************************************************************)
(* The limiter while time goes on (SpecLockouts): callers consume until    *)
(* the clock reads MaxNow, as many times as they like, and the clock is    *)
(* followed for MaxLockTicks ticks more, so that every lockout set can be  *)
(* seen to its end.                                                        *)
(***************************************************************************)
LockHorizon == MaxNow + MaxLockTicks * TickMs

\* Date.now() advances
LockTick ==
    /\ now < LockHorizon
    /\ now' = now + TickMs
    /\ UNCHANGED <<limVars, cacheVars, pipeVars>>

\* a caller consumes a key
LockConsume == now < MaxNow /\ LimiterConsume

NextLockouts == LockConsume \/ LockTick

\* Time does not stop; nothing obliges a caller to call.
SpecLockouts == InitLimiter /\ [][NextLockouts]_vars /\ WF_vars(LockTick)

(***************************************************************************)
(* The cache on its own: set, get and clear on a few keys, and the clock.  *)
(***************************************************************************)
InitCache ==
    /\ now = 0
    /\ limit = 1
    /\ ttl \in TtlChoices
    /\ method = "none"
    /\ authConfigOk = TRUE
    /\ InitLimiterVars
    /\ InitCacheVars
    /\ InitPipeVars
    /\ InitSignVars
    /\ InitPathVars
    /\ InitPeekVars
    /\ InitTaskVars
    /\ InitAdapterVars

CacheTick ==
    /\ now < MaxCacheTicks * TickMs
    /\ now' = now + TickMs
    /\ lastGet' = NoGet
    /\ UNCHANGED <<ttl, files, lastSet, limVars, pipeVars>>

CacheDoSet ==
    \E key \in CacheKeys, data \in Payloads, outcome \in WriteOutcomes :
        /\ files' = CacheSet(files, key, data, now, ttl, outcome)
        /\ lastSet' = [op |-> "set", key |-> key, bytes |-> data, at |-> now,
                       outcome |-> outcome,
                       overwrote |-> CacheGet(files, key, now).hit
                                     /\ CacheGet(files, key, now).bytes # data]
        /\ lastGet' = NoGet
        /\ UNCHANGED <<now, ttl, limVars, pipeVars>>

CacheDoClear ==
    \E key \in CacheKeys, outcome \in {"ok", "failed_untouched"} :
        /\ files' = CacheClear(files, key, outcome)
        /\ lastSet' = [op |-> "clear", key |-> key, bytes |-> <<>>, at |-> now,
                       outcome |-> outcome,
                       overwrote |-> FALSE]
        /\ lastGet' = NoGet
        /\ UNCHANGED <<now, ttl, limVars, pipeVars>>

CacheDoGet ==
    \E key \in CacheKeys :
        LET r == CacheGet(files, key, now) IN
        /\ files' = r.files
        /\ lastGet' = [key |-> key, hit |-> r.hit, bytes |-> r.bytes, checksum |-> <<>>,
                       op |-> "get",
                       had |-> GetCachePath(key) \in DOMAIN files,
                       before |-> FileAt(files, key),
                       hadAfter |-> GetCachePath(key) \in DOMAIN r.files,
                       after |-> FileAt(r.files, key)]
        /\ UNCHANGED <<now, ttl, lastSet, limVars, pipeVars>>

CacheDoGetChecksum ==
    \E key \in CacheKeys :
        LET r == CacheGetChecksum(files, key, now) IN
        /\ lastGet' = [key |-> key, hit |-> r.hit, bytes |-> <<>>, checksum |-> r.checksum,
                       op |-> "checksum",
                       had |-> GetCachePath(key) \in DOMAIN files,
                       before |-> FileAt(files, key),
                       hadAfter |-> GetCachePath(key) \in DOMAIN files,
                       after |-> FileAt(files, key)]
        /\ UNCHANGED <<now, ttl, files, lastSet, limVars, pipeVars>>

NextCache == CacheDoSet \/ CacheDoClear \/ CacheDoGet \/ CacheDoGetChecksum \/ CacheTick

SpecCache == InitCache /\ [][NextCache]_vars

(***************************************************************************)
(* The cache over a disk that can alter a stored file: the payload text of *)
(* an entry is replaced, its checksum field is left as written.            *)
(***************************************************************************)
\* the bytes a damaged payload decodes to
DamagedPayload == <<0>>

\* the entry file of `key` is read back from disk with another payload
DiskCorrupt ==
    \E key \in CacheKeys :
        /\ GetCachePath(key) \in DOMAIN files
        /\ files[GetCachePath(key)].json
        /\ files[GetCachePath(key)].data # Base64Encode(DamagedPayload)
        /\ files' = [files EXCEPT ![GetCachePath(key)].data = Base64Encode(DamagedPayload)]
        /\ lastSet' = NoSet
        /\ lastGet' = NoGet
        /\ UNCHANGED <<now, ttl, limVars, pipeVars>>

NextDisk == NextCache \/ DiskCorrupt

SpecDisk == InitCache /\ [][NextDisk]_vars

(***************************************************************************)
(* The server: request tasks run concurrently and are suspended only at    *)
(* the await of authenticateDevice and at the awaits of the Release Source.*)
(***************************************************************************)
Methods == {"jamf", "tailscale", "mtls", "none"}

Init ==
    /\ now = 0
    /\ limit \in 1..MaxLimit
    /\ ttl \in TtlChoices
    /\ method \in Methods
    /\ authConfigOk \in (IF method \in {"jamf", "tailscale", "mtls"} THEN BOOLEAN ELSE {TRUE})
    /\ InitLimiterVars
    /\ InitCacheVars
    /\ InitPipeVars
    /\ InitSignVars
    /\ InitPathVars
    /\ InitPeekVars
    /\ InitTaskVars
    /\ InitAdapterVars

PipeTick ==
    /\ now < MaxPipeTicks * TickMs
    /\ now' = now + TickMs
    /\ UNCHANGED <<limVars, cacheVars, pipeVars>>

\* The task in slot r moves on to q; an answered request leaves its slot.
Settle(r, q) ==
    IF q.pc = "done"
    THEN /\ reqs' = [reqs EXCEPT ![r] = IdleRequest]
         /\ lastDone' = q
    ELSE /\ reqs' = [reqs EXCEPT ![r] = q]
         /\ lastDone' = lastDone

\* A request arrives (in the first free task slot): its path parameters are
\* validated, and the handler awaits authenticateDevice.
Arrive(r) ==
    /\ reqs[r].pc = "idle"
    /\ \A other \in Requests : other < r => reqs[other].pc # "idle"
    /\ arrivals < MaxArrivals
    /\ arrivals' = arrivals + 1
    /\ \E path \in PathChoices, h \in HeaderChoices :
          Settle(r, IF PathRejected(path)
                    THEN [IdleRequest EXCEPT !.pc = "done", !.status = 400, !.path = path]
                    ELSE [IdleRequest EXCEPT !.pc = "auth", !.path = Validated(path),
                                             !.headers = h, !.n = arrivals + 1,
                                             !.arrived = now])
    /\ UNCHANGED <<now, limVars, cacheVars, setupVars, stores, admitted>>

\* authenticateDevice threw: app.onError answers 500
AuthThrew(r, q) ==
    /\ Settle(r, [q EXCEPT !.pc = "done", !.status = 500])
    /\ UNCHANGED <<now, limVars, cacheVars, setupVars, arrivals, stores,
                   admitted>>

\* no device: the anonymous key is consumed and the request ends
Unauthenticated(r, q) ==
    \E t2 \in ClockAfter(now) :
        LET id == AnonKeyOf(q.headers)
            step == RateLimitStep(limits, limit, id, now, t2)
        IN /\ limits' = step.limits
           /\ admitted' = AdmittedAfter(admitted, step)
           /\ now' = t2
           /\ Settle(r, AnonOutcome(q, id, step))
           /\ UNCHANGED <<limit, lastConsume, firstWindow, lockHist, admitLog, cacheVars, setupVars,
                          arrivals, stores>>

\* a device: its key is consumed, then the cache is read
\* (get at clock reading t3; on a hit of the asset route, getChecksum at t4)
Authenticated(r, q, id) ==
    \E t2 \in ClockAfter(now) :
        \E t3 \in ClockAfter(t2) :
            \E t4 \in ClockAfter(t3) :
                LET step == RateLimitStep(limits, limit, id, now, t2)
                    key == CacheKeyOf(q.path)
                    g == CacheGet(files, key, t3)
                    c == CacheGetChecksum(g.files, key, t4)
                    read == [q EXCEPT !.readAt = t3, !.seen = FileAt(files, key),
                                      !.found = FoundAt(files, key)]
                IN /\ limits' = step.limits
                   /\ admitted' = AdmittedAfter(admitted, step)
                   /\ IF ~step.allowed
                      THEN /\ t3 = t2 /\ t4 = t2
                           /\ now' = t2
                           /\ files' = files
                           /\ Settle(r, DeniedOutcome(q, id, step))
                      ELSE IF g.hit /\ q.path.route = "asset"
                      THEN /\ now' = t4
                           /\ files' = g.files
                           /\ Settle(r, HitOutcome(read, id, step, g.bytes, c))
                      ELSE /\ t4 = t3
                           /\ now' = t3
                           /\ files' = g.files
                           /\ Settle(r, IF g.hit THEN HitOutcome(read, id, step, g.bytes, c)
                                        ELSE MissOutcome(read, id, step))
                   /\ UNCHANGED <<limit, lastConsume, firstWindow, lockHist, admitLog, ttl, lastSet,
                                  lastGet, setupVars, arrivals, stores>>

\* the handler resumes after `await authenticateDevice(...)` and runs to its
\* next await or to its response
AuthReturn(r) ==
    /\ reqs[r].pc = "auth"
    /\ \E api \in ApiAnswers :
          LET a == AuthenticateDevice(method, reqs[r].headers, NoCert, authConfigOk, api)
              q == [reqs[r] EXCEPT !.auth = a.kind]
          IN CASE a.kind = "throw" -> AuthThrew(r, q)
               [] a.kind = "null" -> Unauthenticated(r, q)
               [] a.kind = "device" -> Authenticated(r, q, a.device_id)

\* the handler resumes after `await githubClient.listReleases(owner, repo)`
ListReturn(r) ==
    /\ reqs[r].pc = "list"
    /\ \E resp \in ListResponses, data \in UpstreamPayloads, outcome \in WriteOutcomes :
          LET q == [reqs[r] EXCEPT !.calls = Append(@, SourceCall("listReleases", resp))] IN
          IF ListReleases(resp) = "empty"
          THEN /\ Settle(r, FailOutcome(q, 404, "not_found"))
               /\ files' = files
               /\ stores' = stores
          ELSE /\ Settle(r, StoreOutcome([q EXCEPT !.wrote = outcome,
                                                   !.over = FileAt(files, CacheKeyOf(q.path))],
                                         data))
               /\ files' = CacheSet(files, CacheKeyOf(reqs[r].path), data, now, ttl, outcome)
               /\ stores' = StoresAfter(stores, CacheKeyOf(reqs[r].path), data, now, arrivals,
                                        outcome)
    /\ UNCHANGED <<now, limVars, ttl, lastSet, lastGet, setupVars, arrivals, admitted>>

\* the handler resumes after `await githubClient.getRelease(owner, repo, version)`
ReleaseReturn(r) ==
    /\ reqs[r].pc = "release"
    /\ \E resp \in ReleaseResponses :
          LET q == [reqs[r] EXCEPT !.calls = Append(@, SourceCall("getRelease", resp))]
              release == GetRelease(resp)
          IN Settle(r, CASE release = "null" -> FailOutcome(q, 404, "release_not_found")
                         [] release = "without_asset" -> FailOutcome(q, 404, "asset_not_found")
                         [] release = "with_asset" ->
                              [q EXCEPT !.pc = "download", !.upstream = @ + 1])
    /\ UNCHANGED <<now, limVars, cacheVars, setupVars, arrivals, stores,
                   admitted>>

\* the handler resumes after `await githubClient.downloadAsset(owner, repo, asset.id)`
DownloadReturn(r) ==
    /\ reqs[r].pc = "download"
    /\ \E resp \in DownloadResponses, data \in UpstreamPayloads, outcome \in WriteOutcomes :
          LET q == [reqs[r] EXCEPT !.calls = Append(@, SourceCall("downloadAsset", resp))]
              got == DownloadAsset(resp, data)
          IN
          IF got.null
          THEN /\ Settle(r, DownloadFailedOutcome(q))
               /\ files' = files
               /\ stores' = stores
          ELSE /\ Settle(r, StoreOutcome([q EXCEPT !.wrote = outcome,
                                                   !.over = FileAt(files, CacheKeyOf(q.path))],
                                         got.data))
               /\ files' = CacheSet(files, CacheKeyOf(reqs[r].path), data, now, ttl, outcome)
               /\ stores' = StoresAfter(stores, CacheKeyOf(reqs[r].path), data, now, arrivals,
                                        outcome)
    /\ UNCHANGED <<now, limVars, ttl, lastSet, lastGet, setupVars, arrivals, admitted>>

Next ==
    \/ PipeTick
    \/ \E r \in Requests : Arrive(r)
    \/ \E r \in Requests : AuthReturn(r)
    \/ \E r \in Requests : ListReturn(r)
    \/ \E r \in Requests : ReleaseReturn(r)
    \/ \E r \in Requests : DownloadReturn(r)

Spec == Init /\ [][Next]_vars

(***************************************************************************)
(* One request task followed through every await (SpecWaits): the fetch of *)
(* the identity API under fetchWithTimeout, the reading of its body, and   *)
(* the calls of the Release Source under octokit's request timeout.  The   *)
(* identity API and the Release Source answer when they like, or never.    *)
(***************************************************************************)
\* the paths the followed task asks for
TaskPaths == {p \in PathChoices : ~PathRejected(p)}

\* whether the adapter gets as far as its fetchWithTimeout call
StartsFetch(m, headers, configOk) ==
    CASE m = "jamf" -> ValidateTokenHeader(headers.token) # Rejected /\ configOk
      [] m = "tailscale" -> /\ ValidateUserHeader(headers.user) # Rejected
                            /\ ValidateDeviceHeader(headers.device) # Rejected
                            /\ configOk
      [] OTHER -> FALSE

\* the response is sent
Answer(tk, status) ==
    [tk EXCEPT !.pc = "done", !.status = status, !.responses = @ + 1, !.timer = FALSE,
               !.waited = 0]

\* the handler from the result of authenticateDevice to its next await or to
\* its response, at clock reading t
AfterAuth(tk, a, lims, fs, t) ==
    LET id == IF a.kind = "device" THEN a.device_id ELSE tk.anon
        step == RateLimitStep(lims, limit, id, t, t)
        g == CacheGet(fs, CacheKeyOf(tk.path), t)
    IN CASE a.kind = "throw" -> [task |-> Answer(tk, 500), limits |-> lims, files |-> fs]
         [] a.kind = "null" ->
              [task |-> Answer(tk, IF step.allowed THEN 401 ELSE 429),
               limits |-> step.limits, files |-> fs]
         [] a.kind = "device" ->
              IF ~step.allowed
              THEN [task |-> Answer(tk, 429), limits |-> step.limits, files |-> fs]
              ELSE IF g.hit
              THEN [task |-> Answer(tk, 200), limits |-> step.limits, files |-> g.files]
              ELSE [task |-> [tk EXCEPT !.pc = IF tk.path.route = "list" THEN "list"
                                               ELSE "release",
                                        !.waited = 0, !.timer = FALSE],
                    limits |-> step.limits, files |-> g.files]

\* the handler from the client's answer to its next await or to its response
AfterSource(tk, resp, data, fs, t) ==
    CASE tk.pc = "list" ->
             IF ListReleases(resp) = "empty"
             THEN [task |-> Answer(tk, 404), files |-> fs]
             ELSE [task |-> Answer(tk, 200),
                   files |-> CacheSet(fs, CacheKeyOf(tk.path), data, t, ttl, "ok")]
      [] tk.pc = "release" ->
             IF GetRelease(resp) = "with_asset"
             THEN [task |-> [tk EXCEPT !.pc = "download", !.waited = 0], files |-> fs]
             ELSE [task |-> Answer(tk, 404), files |-> fs]
      [] tk.pc = "download" ->
             IF DownloadAsset(resp, data).null
             THEN [task |-> Answer(tk, 502), files |-> fs]
             ELSE [task |-> Answer(tk, 200),
                   files |-> CacheSet(fs, CacheKeyOf(tk.path), data, t, ttl, "ok")]

\* what octokit may answer the call the task is waiting for
ResponsesAt(pc) ==
    CASE pc = "list" -> ListResponses
      [] pc = "release" -> ReleaseResponses
      [] pc = "download" -> DownloadResponses

\* the timer of fetchWithTimeout has run its 30 s
TimerDue(tk) == tk.pc = "fetch" /\ tk.timer /\ tk.waited * TickMs >= TimeoutMs

\* octokit's request timeout has run its 30 s
RequestTimeoutDue(tk) ==
    tk.pc \in {"list", "release", "download"} /\ tk.waited * TickMs >= TimeoutMs

TaskFrame ==
    UNCHANGED <<now, limit, lastConsume, firstWindow, lockHist, admitLog, ttl, lastSet, lastGet,
                method, authConfigOk, adapterVars, signVars, pathVars, peekVars, reqs, lastDone,
                stores, admitted>>

\* a request arrives; the adapter either answers at once or starts its fetch
TaskArrive ==
    /\ task.pc \in {"idle", "done"}
    /\ arrivals < MaxArrivals
    /\ arrivals' = arrivals + 1
    /\ \E path \in TaskPaths, h \in HeaderChoices :
          LET tk == [IdleTask EXCEPT !.path = Validated(path), !.headers = h,
                                     !.anon = AnonKeyOf(h)] IN
          IF StartsFetch(method, h, authConfigOk)
          THEN /\ task' = [tk EXCEPT !.pc = "fetch", !.waited = 0, !.timer = TRUE]
               /\ UNCHANGED <<limits, files>>
          ELSE LET r == AfterAuth(tk, AuthenticateDevice(method, h, NoCert, authConfigOk,
                                                         CHOOSE api \in ApiAnswers : TRUE),
                                  limits, files, now)
               IN /\ task' = r.task
                  /\ limits' = r.limits
                  /\ files' = r.files
    /\ TaskFrame

\* fetch() settles before the timer: it rejects, or its headers arrive; the
\* `finally` clears the timer either way
FetchSettles ==
    /\ task.pc = "fetch"
    /\ \E kind \in {"network_error", "non2xx", "2xx"} :
          IF kind = "2xx"
          THEN /\ task' = [task EXCEPT !.pc = "body", !.waited = 0, !.timer = FALSE]
               /\ UNCHANGED <<limits, files>>
          ELSE LET r == AfterAuth(task, NoDevice, limits, files, now)
               IN /\ task' = r.task
                  /\ limits' = r.limits
                  /\ files' = r.files
    /\ UNCHANGED arrivals
    /\ TaskFrame

\* the timer fires after 30 s: the fetch is aborted, the adapter's catch
\* returns null
FetchTimeout ==
    /\ task.pc = "fetch"
    /\ TimerDue(task)
    /\ LET r == AfterAuth(task, NoDevice, limits, files, now)
       IN /\ task' = r.task
          /\ limits' = r.limits
          /\ files' = r.files
    /\ UNCHANGED arrivals
    /\ TaskFrame

\* `await response.json()` settles: the body is read and parsed, or the read
\* fails (the catch returns null, as for a malformed body)
BodySettles ==
    /\ task.pc = "body"
    /\ \E api \in {a \in ApiAnswers : a.kind \in {"ok", "malformed"}} :
          LET r == AfterAuth(task, AuthenticateDevice(method, task.headers, NoCert,
                                                      authConfigOk, api),
                             limits, files, now)
          IN /\ task' = r.task
             /\ limits' = r.limits
             /\ files' = r.files
    /\ UNCHANGED arrivals
    /\ TaskFrame

\* octokit answers the call of the Release Source client
SourceSettles ==
    /\ task.pc \in {"list", "release", "download"}
    /\ \E resp \in ResponsesAt(task.pc), data \in UpstreamPayloads :
          LET r == AfterSource(task, resp, data, files, now)
          IN /\ task' = r.task
             /\ files' = r.files
    /\ UNCHANGED <<arrivals, limits>>
    /\ TaskFrame

\* octokit's request timeout of 30 s passes: the call rejects, and the client
\* answers as for any other error
SourceTimeout ==
    /\ RequestTimeoutDue(task)
    /\ LET r == AfterSource(task, "error", <<>>, files, now)
       IN /\ task' = r.task
          /\ files' = r.files
    /\ UNCHANGED <<arrivals, limits>>
    /\ TaskFrame

\* Time passes for a suspended task.  A timer that is due runs before more
\* time passes; the clock itself is followed up to MaxNow.
WaitTick ==
    /\ task.pc \notin {"idle", "done"}
    /\ ~TimerDue(task)
    /\ ~RequestTimeoutDue(task)
    /\ now' = Min(now + TickMs, MaxNow)
    /\ task' = [task EXCEPT !.waited = Min(@ + 1, MaxWaitTicks)]
    /\ UNCHANGED <<limit, limits, lastConsume, firstWindow, lockHist, admitLog, cacheVars,
                   method, authConfigOk, adapterVars, signVars, pathVars, peekVars, reqs,
                   arrivals, lastDone, stores, admitted>>

NextWaits ==
    \/ TaskArrive
    \/ FetchSettles
    \/ FetchTimeout
    \/ BodySettles
    \/ SourceSettles
    \/ SourceTimeout
    \/ WaitTick

InitWaits ==
    /\ now = 0
    /\ limit \in 1..MaxLimit
    /\ ttl = MaxTtlTicks * (TickMs \div 1000)
    /\ method \in Methods
    /\ authConfigOk \in (IF method \in {"jamf", "tailscale"} THEN BOOLEAN ELSE {TRUE})
    /\ InitLimiterVars
    /\ InitCacheVars
    /\ InitPipeVars
    /\ InitSignVars
    /\ InitPathVars
    /\ InitPeekVars
    /\ InitTaskVars
    /\ InitAdapterVars

\* The clock advances and timers that are due fire (the event loop runs
\* them); nothing obliges the identity API or the Release Source to answer.
SpecWaits ==
    /\ InitWaits
    /\ [][NextWaits]_vars
    /\ WF_vars(WaitTick)
    /\ WF_vars(FetchTimeout)
    /\ WF_vars(SourceTimeout)

(***************************************************************************)
(* The routes with signing configured (SpecSigning): the server of Spec in *)
(* open mode, created from any signing configuration.                      *)
(***************************************************************************)
InitSigning ==
    /\ now = 0
    /\ limit = MaxLimit
    /\ ttl = MaxTtlTicks * (TickMs \div 1000)
    /\ method = "none"
    /\ authConfigOk = TRUE
    /\ InitLimiterVars
    /\ InitCacheVars
    /\ InitPipeVars
    /\ InitAdapterVars
    /\ InitPathVars
    /\ InitPeekVars
    /\ InitTaskVars
    /\ signing \in SigningChoices
    /\ assetSigner = LoadSigner(signing)

SpecSigning == InitSigning /\ [][Next]_vars

(***************************************************************************)
(* The trust adapters after startup (SpecAdapters): validateConfig runs    *)
(* once on the loaded configuration; if it accepts, requests reach the     *)
(* adapter of the configured method, with any headers and any answer of    *)
(* the identity API.                                                       *)
(***************************************************************************)
AdapterMethods == {"jamf", "tailscale"}

InitAdapters ==
    /\ now = 0
    /\ limit = 1
    /\ ttl = 0
    /\ method \in AdapterMethods
    /\ authConfigOk = TRUE
    /\ InitLimiterVars
    /\ InitCacheVars
    /\ InitPipeVars
    /\ InitSignVars
    /\ InitPathVars
    /\ InitPeekVars
    /\ InitTaskVars
    /\ config \in ConfigChoices
    /\ startup = "pending"
    /\ lastAuth = NoAuthCall

\* validateConfig(config) on the startup path
Startup ==
    /\ startup = "pending"
    /\ LET v == ValidateConfig(method, config) IN
          /\ startup' = IF v.ok THEN "accepted" ELSE "ConfigError"
          /\ config' = v.config
          /\ authConfigOk' = AdapterConfigComplete(method, v.config)
    /\ UNCHANGED <<now, limVars, cacheVars, method, reqs, arrivals, lastDone, stores, admitted,
                   lastAuth, signVars, pathVars, peekVars,
                   taskVars>>

\* await authenticateJamf(headers, config.auth.jamf)
JamfCall ==
    /\ startup = "accepted"
    /\ method = "jamf"
    /\ \E headers \in HeaderChoices, api \in AdapterAnswers :
          lastAuth' = AuthCall("jamf", headers, api, authConfigOk,
                               AuthenticateJamf(headers, authConfigOk, api))
    /\ UNCHANGED <<now, limVars, cacheVars, method, authConfigOk, reqs, arrivals, lastDone,
                   stores, admitted, config, startup, signVars, pathVars, peekVars,
                   taskVars>>

\* await authenticateTailscale(headers, config.auth.tailscale)
TailscaleCall ==
    /\ startup = "accepted"
    /\ method = "tailscale"
    /\ \E headers \in HeaderChoices, api \in AdapterAnswers :
          lastAuth' = AuthCall("tailscale", headers, api, authConfigOk,
                               AuthenticateTailscale(headers, authConfigOk, api))
    /\ UNCHANGED <<now, limVars, cacheVars, method, authConfigOk, reqs, arrivals, lastDone,
                   stores, admitted, config, startup, signVars, pathVars, peekVars,
                   taskVars>>

NextAdapters == Startup \/ JamfCall \/ TailscaleCall

SpecAdapters == InitAdapters /\ [][NextAdapters]_vars

(***************************************************************************)
(* The certificate adapter on its own (SpecMtls): authenticateMTLS is      *)
(* called with any certificate, at any clock reading.                      *)
(***************************************************************************)
Name(type, value) == [type |-> type, value |-> value]
Attribute(key, value) == [key |-> key, value |-> value]

AltNameChoices ==
    {<<>>,
     <<Name(<<"D", "N", "S">>, <<"s", "1">>)>>,
     <<Name(<<"D", "N", "S">>, <<"s", "2">>), Name(<<"D", "N", "S">>, <<"s", "1">>)>>,
     <<Name(<<"U", "R", "I">>, <<"s", ":", "1">>)>>}

AttributeChoices ==
    {<<Attribute(<<"C", "N">>, <<"c", "1">>)>>,
     <<Attribute(<<"O">>, <<"o">>), Attribute(<<"C", "N">>, <<"c", "1">>)>>,
     <<Attribute(<<"C", "N">>, <<"c", "@", "1">>)>>,
     <<Attribute(<<"O">>, <<"o">>)>>}

KeyUsageChoices ==
    {[defined |-> FALSE, usages |-> {}],
     [defined |-> TRUE, usages |-> {"Digital Signature", "Key Encipherment"}],
     [defined |-> TRUE, usages |-> {"Key Encipherment"}]}

WellFormedCerts ==
    {[present |-> TRUE, parses |-> TRUE, datesFinite |-> TRUE, validFrom |-> vf,
      validTo |-> vt, signedBy |-> by, keyUsage |-> ku, altNames |-> an,
      attributes |-> at, separator |-> sep] :
        vf \in {0, 2 * TickMs}, vt \in {TickMs, 3 * TickMs},
        by \in {"ca", "other"}, ku \in KeyUsageChoices, an \in AltNameChoices,
        at \in AttributeChoices, sep \in {",", "/", "\n"}}

\* also: no certificate, text that is no certificate, and a certificate
\* whose dates Date.parse cannot read
CertChoices ==
    {NoCert, [NoCert EXCEPT !.present = TRUE]}
    \cup WellFormedCerts
    \cup {[c EXCEPT !.datesFinite = FALSE] :
            c \in {w \in WellFormedCerts : w.altNames = <<>> /\ w.separator = ","
                                            /\ ~w.keyUsage.defined}}

\* the CA configuration: the path is not set, or set to a file that cannot
\* be read as a certificate, or set to the CA certificate
CaChoices ==
    {[caPathSet |-> FALSE, caReadable |-> FALSE], [caPathSet |-> TRUE, caReadable |-> FALSE],
     [caPathSet |-> TRUE, caReadable |-> TRUE]}

\* history: a call of authenticateMTLS, what it is given, and once it has
\* returned (adapter "mtls") when it read the clock and its result
MtlsCall(adapter, cert, ca, t, result) ==
    [adapter |-> adapter, cert |-> cert, caPathSet |-> ca.caPathSet,
     caReadable |-> ca.caReadable, at |-> t, result |-> result]

InitMtls ==
    /\ now = 0
    /\ limit = 1
    /\ ttl = 0
    /\ method = "mtls"
    /\ authConfigOk = TRUE
    /\ InitLimiterVars
    /\ InitCacheVars
    /\ InitPipeVars
    /\ InitSignVars
    /\ InitPathVars
    /\ InitPeekVars
    /\ InitTaskVars
    /\ config = NoConfig
    /\ startup = "accepted"
    /\ \E cert \in CertChoices, ca \in CaChoices :
          lastAuth = MtlsCall("mtls_pending", cert, ca, 0, NoDevice)

\* the clock advances until the certificate is presented
MtlsTick ==
    /\ lastAuth.adapter = "mtls_pending"
    /\ Tick

\* await authenticateMTLS(clientCert, config.auth.mtls)
AuthenticateMtls ==
    /\ lastAuth.adapter = "mtls_pending"
    /\ lastAuth' = [lastAuth EXCEPT
                       !.adapter = "mtls", !.at = now,
                       !.result = AuthenticateMTLS(lastAuth.cert, lastAuth.caPathSet,
                                                   lastAuth.caReadable, now)]
    /\ UNCHANGED <<now, limVars, cacheVars, method, authConfigOk, reqs, arrivals, lastDone,
                   stores, admitted, config, startup, signVars, pathVars, peekVars,
                   taskVars>>

NextMtls == AuthenticateMtls \/ MtlsTick

SpecMtls == InitMtls /\ [][NextMtls]_vars

(***************************************************************************)
(* resolveSafePath on its own (SpecPaths): it is called with a base        *)
(* directory and any short path over a small alphabet.                     *)
(***************************************************************************)
PathChars == {"/", "\\", ".", "a", " ", "NUL"}

RECURSIVE PathsUpTo(_)
PathsUpTo(n) ==
    IF n = 0 THEN {<<>>}
    ELSE LET shorter == PathsUpTo(n - 1) IN
         shorter \cup {Append(path, c) : path \in {x \in shorter : Len(x) = n - 1}, c \in PathChars}

BaseDirs == {<<"/", "a">>, <<"/", "a", "/", "b">>}

InitPaths ==
    /\ now = 0
    /\ limit = 1
    /\ ttl = 0
    /\ method = "none"
    /\ authConfigOk = TRUE
    /\ InitLimiterVars
    /\ InitCacheVars
    /\ InitPipeVars
    /\ InitAdapterVars
    /\ InitSignVars
    /\ InitPeekVars
    /\ InitTaskVars
    /\ \E baseDir \in BaseDirs, inputPath \in PathsUpTo(MaxPathLen) :
          lastResolve = ResolveCall("called", baseDir, inputPath, Rejected)

\* resolveSafePath(baseDir, inputPath) returns
ResolveReturn ==
    /\ lastResolve.state = "called"
    /\ lastResolve' = [lastResolve EXCEPT
                          !.state = "returned",
                          !.result = ResolveSafePath(lastResolve.baseDir,
                                                     lastResolve.inputPath)]
    /\ UNCHANGED <<now, limVars, cacheVars, method, authConfigOk, adapterVars, signVars,
                   peekVars, taskVars, reqs, arrivals, lastDone, stores, admitted>>

NextPaths == ResolveReturn

SpecPaths == InitPaths /\ [][NextPaths]_vars

(***************************************************************************)
(* Claims about the limiter (checked under SpecLimiter).                   *)
(***************************************************************************)
\* C2: for a key with no prior state, the first `limit` consume calls made
\* within the key's first 60 s window are admitted, the i-th reporting
\* remaining = limit - i, and the (limit+1)-th call in that window is denied
\* with remaining = 0.
C2_FirstWindowAdmitsLimit ==
    \A key \in DOMAIN firstWindow :
        \A i \in 1..Len(firstWindow[key].calls) :
            LET c == firstWindow[key].calls[i] IN
            /\ i <= limit => c.allowed /\ c.remaining = limit - i
            /\ i = limit + 1 => ~c.allowed /\ c.remaining = 0

\* a key whose first window saw limit+1 calls, spread over more than one clock
\* reading, with the largest limit tried
C2_Witness ==
    \E key \in DOMAIN firstWindow :
        /\ limit = MaxLimit
        /\ Len(firstWindow[key].calls) = limit + 1
        /\ now > firstWindow[key].t0
        /\ lastConsume.key = key /\ ~lastConsume.allowed

\* C5 (as claimed): each lockout of a key lasts strictly longer than the key's
\* previous lockout, until the 15-minute cap is reached.
C5_LockoutsEscalate ==
    \A key \in DOMAIN lockHist :
        (lockHist[key].prev # 0 /\ lockHist[key].prev < MaxBlockMs)
            => lockHist[key].last > lockHist[key].prev

\* C16 (as claimed): whenever consume(key) denies, at any time during the
\* lockout, the handler's rate-limit headers for that call report
\* remaining 0 and a reset equal to the key's blocked_until (in seconds), the
\* values the denying consume returned.
C16_DeniedReportsZeroAndLockout ==
    (lastConsume.branch # "none" /\ ~lastConsume.allowed) =>
        /\ lastConsume.remaining = 0
        /\ lastConsume.headers.remaining = 0
        /\ lastConsume.headers.reset = lastConsume.reset_at \div 1000
        /\ lastConsume.reset_at = limits[lastConsume.key].blocked_until

\* C25 (as claimed): the limiter is a sliding window: for every key, the
\* calls admitted within any 60 s, also 60 s that straddle a window reset,
\* number at most the limit.
C25_SlidingWindow ==
    \A key \in DOMAIN admitLog : Len(admitLog[key]) <= limit

\* a step of the limiter in which consume(key) is called
ConsumeStepOf(key) == now' = now /\ lastConsume'.key = key /\ lastConsume'.at = now

\* the key is locked at the current clock reading
Locked(key) ==
    key \in DOMAIN limits /\ limits[key].blocked_until # 0 /\ now < limits[key].blocked_until

\* C27: while a key is locked, consume(key) denies with remaining 0 and reset_at
\* equal to the lockout's end, and leaves the key's whole state (and the whole
\* map) as it was: a denied call neither extends the lockout nor adds a violation.
C27_LockedConsumeLeavesState ==
    [][\A key \in LimiterKeys :
          (ConsumeStepOf(key) /\ Locked(key)) =>
              /\ limits' = limits
              /\ ~lastConsume'.allowed
              /\ lastConsume'.remaining = 0
              /\ lastConsume'.reset_at = limits[key].blocked_until]_vars

\* a call has just been denied inside a lockout, after the window that caused
\* the lockout has ended
C27_Witness ==
    /\ lastConsume.branch = "blocked"
    /\ lastConsume.at = now
    /\ ~lastConsume.allowed
    /\ now > limits[lastConsume.key].reset_at
    /\ now < limits[lastConsume.key].blocked_until

\* C28: consume(key) on a known key that is not locked, after the end of its
\* window (now > reset_at), admits the call and leaves the key with requests = 1,
\* reset_at = now + 60 s and one violation fewer (never below 0), the lockout
\* field untouched; at now = reset_at exactly the old window still applies: its
\* end is kept and the call is admitted only if the window has room.
C28_WindowReset ==
    [][\A key \in LimiterKeys :
          (ConsumeStepOf(key) /\ key \in DOMAIN limits /\ ~Locked(key)) =>
              LET old == limits[key] IN
              /\ now > old.reset_at =>
                    /\ lastConsume'.allowed
                    /\ limits'[key].requests = 1
                    /\ limits'[key].reset_at = now + WindowMs
                    /\ limits'[key].violations =
                          (IF old.violations > 0 THEN old.violations - 1 ELSE 0)
                    /\ limits'[key].blocked_until = old.blocked_until
              /\ now = old.reset_at =>
                    /\ limits'[key].reset_at = old.reset_at
                    /\ lastConsume'.allowed = (old.requests < limit)
                    /\ limits'[key].requests =
                          (IF old.requests < limit THEN old.requests + 1 ELSE old.requests)]_vars

\* a key that was locked out before has just started a new window, and its
\* violation count is back at 0
C28_Witness ==
    /\ lastConsume.branch = "reset"
    /\ lastConsume.at = now
    /\ lastConsume.allowed
    /\ lastConsume.key \in DOMAIN lockHist
    /\ limits[lastConsume.key].requests = 1
    /\ limits[lastConsume.key].reset_at = now + WindowMs
    /\ limits[lastConsume.key].violations = 0

\* C29: in every reachable state of the limiter each key has
\* 1 <= requests <= limit and violations >= 0; and a consume that sets
\* blocked_until sets it to now + min(15 min, 60 s * violations) with
\* violations >= 1: strictly after now, between 60 s and 15 min ahead, and not
\* before the end of the key's window.
C29_CountersAndLockoutBounds ==
    /\ \A key \in DOMAIN limits :
          /\ 1 <= limits[key].requests
          /\ limits[key].requests <= limit
          /\ limits[key].violations >= 0
    /\ lastConsume.branch = "violation" =>
          LET st == limits[lastConsume.key]
              t == lastConsume.at
          IN /\ st.violations >= 1
             /\ st.blocked_until =
                   t + (IF 60000 * st.violations < 900000 THEN 60000 * st.violations ELSE 900000)
             /\ st.blocked_until > t
             /\ st.blocked_until >= t + 60000
             /\ st.blocked_until <= t + 900000
             /\ st.blocked_until >= st.reset_at

\* a second violation in a row has just locked a full key out for 120 s
C29_Witness ==
    /\ lastConsume.branch = "violation"
    /\ lastConsume.at = now
    /\ limits[lastConsume.key].requests = limit
    /\ limits[lastConsume.key].violations = 2
    /\ limits[lastConsume.key].blocked_until = now + 120000

\* the clock reading at which the key's latest lockout was set
LockSetAt(key) == limits[key].blocked_until - lockHist[key].last

\* the key is past its lockout and past its window, within 15 minutes of the
\* setting of its latest lockout
Released(key) ==
    /\ key \in DOMAIN limits
    /\ key \in DOMAIN lockHist
    /\ now >= limits[key].blocked_until
    /\ now > limits[key].reset_at
    /\ now <= LockSetAt(key) + MaxBlockMs

\* C35: a consume of a key at a clock reading at or after its blocked_until
\* and after its reset_at is admitted; and a key that is locked out reaches
\* such a reading, no later than 15 minutes after its latest lockout was set,
\* whatever calls are made meanwhile.
C35_NoKeyDeniedForever ==
    /\ [][\A key \in DOMAIN limits :
            (/\ ConsumeStepOf(key)
             /\ now >= limits[key].blocked_until
             /\ now > limits[key].reset_at) => lastConsume'.allowed]_vars
    /\ \A key \in LimiterKeys : [](Locked(key) => <>Released(key))

\* a key that was locked out is admitted by a call made at the very end of
\* its lockout, one tick after the end of its window
C35_Witness ==
    /\ lastConsume.allowed
    /\ lastConsume.at = now
    /\ lastConsume.branch = "reset"
    /\ lastConsume.key \in DOMAIN lockHist
    /\ now = limits[lastConsume.key].blocked_until
    /\ now = LockSetAt(lastConsume.key) + BlockStepMs

\* C30: getRemainingRequests and getResetTime are free of side effects: a call
\* of either, for a key the limiter knows or for one it does not, leaves the
\* map of key states as it was (no entry appears, no counter or lockout
\* changes), so a consume made afterwards, now or later, has the outcome it
\* would have had without the call.
C30_ProjectionsLeaveState ==
    [][lastPeek'.n = lastPeek.n + 1 =>
          /\ limits' = limits
          /\ \A key \in LimiterKeys : \A t \in Times :
                t >= now => Consume(limits', limit, key, t) = Consume(limits, limit, key, t)]_vars

\* after several projection calls, the last one for a key that has no state,
\* the limiter holds the device's lockout and still nothing for the other key
C30_Witness ==
    /\ lastPeek.n = MaxCalls
    /\ lastPeek.at = now
    /\ lastPeek.key \notin DOMAIN limits
    /\ DeviceKey \in DOMAIN limits
    /\ limits[DeviceKey].blocked_until > now

(***************************************************************************)
(* Claims about the routes (checked under Spec).                           *)
(***************************************************************************)
\* the requests in flight and the request answered last
Observed == {reqs[r] : r \in Requests} \cup {lastDone}

InFlight(q) == q.pc \in {"list", "release", "download"}

\* C1: when the configured method is jamf, tailscale or mtls and the adapter
\* yields no identity, the request reads no cache entry, calls the Release
\* Source never, stores and serves nothing, and is answered 401 or 429.
C1_NoIdentityNoService ==
    method \in {"jamf", "tailscale", "mtls"} =>
        \A q \in Observed :
            q.auth = "null" =>
                /\ q.cacheReads = 0
                /\ q.cacheWrites = 0
                /\ q.upstream = 0
                /\ q.body = <<>>
                /\ q.pc = "done"
                /\ q.status \in {401, 429}

\* an asset request with a well-formed Jamf token that the identity API does
\* not vouch for, answered 401 while the cache holds a live entry for it
C1_Witness ==
    /\ method = "jamf"
    /\ lastDone.auth = "null"
    /\ lastDone.status = 401
    /\ lastDone.path.route = "asset"
    /\ ValidateTokenHeader(lastDone.headers.token) # Rejected
    /\ CacheGet(files, CacheKeyOf(lastDone.path), now).hit

\* C3: under every interleaving of request tasks no update of a key's state is
\* lost (the key's count is the number of requests admitted in its window),
\* so at most `limit` requests are admitted in one window of a key.
C3_ConsumeIsAtomic ==
    \A key \in DOMAIN admitted :
        /\ admitted[key].count <= limit
        /\ key \in DOMAIN limits
        /\ limits[key].reset_at = admitted[key].window
              => limits[key].requests = admitted[key].count

\* a request denied on a key while another request, admitted on the same key,
\* is still waiting for the Release Source, the key being at its limit
C3_Witness ==
    \E r \in Requests :
        /\ InFlight(reqs[r])
        /\ lastDone.status = 429
        /\ lastDone.auth = "device"
        /\ lastDone.consumed = <<[key |-> reqs[r].device, allowed |-> FALSE]>>
        /\ reqs[r].consumed = <<[key |-> reqs[r].device, allowed |-> TRUE]>>
        /\ admitted[reqs[r].device].count = limit

\* C4: a request whose authentication fails consumes the key anon:<ip> of its
\* client address once and no other key, and is answered 429 when that
\* consumption is denied and 401 otherwise.
C4_AnonymousKeyConsumedOnce ==
    lastDone.auth = "null" =>
        /\ Len(lastDone.consumed) = 1
        /\ lastDone.consumed[1].key = AnonId(ParseForwardedFor(lastDone.headers.xff))
        /\ lastDone.status = IF lastDone.consumed[1].allowed THEN 401 ELSE 429

\* an unauthenticated request from 10.0.0.1 whose anonymous key is over its
\* limit: 429, not 401
C4_Witness ==
    /\ lastDone.auth = "null"
    /\ lastDone.status = 429
    /\ lastDone.consumed = <<[key |-> AnonId(<<"10.0.0.1">>), allowed |-> FALSE]>>

\* C6 (as claimed): every request answered 200, 400, 401, 404, 429 or 502 has
\* handed exactly one record to the audit log.
C6_EveryOutcomeAuditedOnce ==
    (lastDone.pc = "done" /\ lastDone.status \in {200, 400, 401, 404, 429, 502})
        => Len(lastDone.audits) = 1

Admitted(q) == q.auth = "device" /\ Len(q.consumed) = 1 /\ q.consumed[1].allowed

\* C12 (as claimed): once a request has stored its result for a resource, an
\* admitted request for the same resource that arrives later, no more than the
\* TTL after the store, is served the stored bytes from the cache without a
\* call to the Release Source.
C12_LaterRequestServedFromCache ==
    (/\ lastDone.pc = "done"
     /\ Admitted(lastDone)
     /\ CacheKeyOf(lastDone.path) \in DOMAIN stores
     /\ lastDone.n > stores[CacheKeyOf(lastDone.path)].n
     /\ lastDone.arrived - stores[CacheKeyOf(lastDone.path)].at <= ttl * 1000)
        => /\ lastDone.status = 200
           /\ lastDone.upstream = 0
           /\ lastDone.body = stores[CacheKeyOf(lastDone.path)].bytes

\* C12 (amended): an admitted request whose cache read finds an entry no older
\* than its TTL at the time of the read is served that entry's bytes with 200,
\* calls the Release Source never and stores nothing; and the entry a key
\* holds is the one last stored by a request for that resource.
C12_ReadWithinTtlServedFromCache ==
    /\ \A q \in Observed :
          (/\ q.pc \notin {"idle", "auth"}
           /\ Admitted(q)
           /\ q.seen.json
           /\ q.readAt - q.seen.timestamp <= q.seen.ttl * 1000)
              => /\ q.pc = "done"
                 /\ q.status = 200
                 /\ q.upstream = 0
                 /\ q.cacheWrites = 0
                 /\ q.body = Base64Decode(q.seen.data)
    /\ \A key \in CacheKeys :
          FileAt(files, key).json =>
              /\ key \in DOMAIN stores
              /\ FileAt(files, key).data = Base64Encode(stores[key].bytes)
              /\ FileAt(files, key).timestamp = stores[key].at
              /\ FileAt(files, key).ttl = ttl

\* a request served from the cache, one TTL after another request stored the
\* bytes (the age of the entry equals the TTL)
C12_Witness ==
    /\ lastDone.status = 200
    /\ Admitted(lastDone)
    /\ lastDone.cacheReads = 1
    /\ lastDone.upstream = 0
    /\ lastDone.seen.json
    /\ lastDone.seen.ttl > 0
    /\ lastDone.readAt - lastDone.seen.timestamp = lastDone.seen.ttl * 1000
    /\ lastDone.body = <<72, 105, 33, 0>>
    /\ lastDone.n > stores[CacheKeyOf(lastDone.path)].n

\* a path with an owner, repo, version or asset name that its validator rejects
InvalidPath(path) ==
    \/ ValidateOwnerRepo(path.owner) = Rejected
    \/ ValidateOwnerRepo(path.repo) = Rejected
    \/ path.route = "asset" /\ ValidateVersion(path.version) = Rejected
    \/ path.route = "asset" /\ ValidateAssetName(path.asset) = Rejected

\* C13: a request with an invalid owner, repo, version or asset name is
\* answered 400 before authentication: no adapter has run, no rate-limit key
\* was consumed, no rate-limit header is set, and the cache and the Release
\* Source were not touched; no other request is answered 400.
C13_InvalidPathStopsBeforeAuth ==
    \A q \in Observed :
        q.pc # "idle" =>
            /\ InvalidPath(q.path) =>
                  /\ q.pc = "done"
                  /\ q.status = 400
                  /\ q.auth = "none"
                  /\ q.consumed = <<>>
                  /\ ~q.rate.set
                  /\ q.cacheReads = 0
                  /\ q.cacheWrites = 0
                  /\ q.upstream = 0
                  /\ q.body = <<>>
            /\ q.status = 400 => InvalidPath(q.path)

\* an asset request whose only invalid input is the asset name "..", answered
\* 400 after another request was served
C13_Witness ==
    /\ lastDone.status = 400
    /\ lastDone.path.route = "asset"
    /\ lastDone.path.asset = <<".", ".">>
    /\ ValidateVersion(lastDone.path.version) # Rejected
    /\ limits # EmptyMap
    /\ files # EmptyMap

\* C14: a request whose device key is denied by the limiter is answered 429
\* without a cache read, a cache write or a call to the Release Source, and
\* hands the audit log one record: that device, status failure, reason
\* rate_limited.
C14_DeniedDeviceIsAudited ==
    \A q \in Observed :
        (q.auth = "device" /\ Len(q.consumed) = 1 /\ ~q.consumed[1].allowed) =>
            /\ q.pc = "done"
            /\ q.status = 429
            /\ q.cacheReads = 0
            /\ q.cacheWrites = 0
            /\ q.upstream = 0
            /\ q.body = <<>>
            /\ Len(q.audits) = 1
            /\ q.audits[1].device_id = q.consumed[1].key
            /\ q.audits[1].action = (IF q.path.route = "list" THEN "list_releases"
                                     ELSE "download_asset")
            /\ q.audits[1].status = "failure"
            /\ q.audits[1].reason = "rate_limited"

\* a Jamf-authenticated device denied on the asset route while the cache
\* holds a live entry for the asset
C14_Witness ==
    /\ method = "jamf"
    /\ lastDone.auth = "device"
    /\ lastDone.status = 429
    /\ lastDone.path.route = "asset"
    /\ lastDone.consumed = <<[key |-> <<"d", "e", "v", "1">>, allowed |-> FALSE]>>
    /\ CacheGet(files, CacheKeyOf(lastDone.path), now).hit

\* C15: a request carries X-RateLimit-Limit, -Remaining and -Reset from the
\* moment its rate-limit key (device id or anon:<ip>) has been consumed, so
\* every 200, 401, 404, 429 and 502 carries them; the limit reported is the
\* limiter's.
C15_RateLimitHeadersOnceKeyResolved ==
    \A q \in Observed :
        /\ Len(q.consumed) >= 1 =>
              /\ q.rate.set
              /\ q.rate.limit = limit
              /\ q.rate.remaining \in 0..limit
        /\ (q.pc = "done" /\ q.status \in {200, 401, 404, 429, 502}) =>
              /\ Len(q.consumed) >= 1
              /\ q.rate.set

\* a 401 for an unauthenticated caller that is under its limit, with the
\* headers set
C15_Witness ==
    /\ lastDone.status = 401
    /\ lastDone.auth = "null"
    /\ lastDone.consumed[1].allowed
    /\ lastDone.rate.set
    /\ lastDone.rate.limit = limit
    /\ lastDone.rate.reset = WindowMs \div 1000

\* C17 (as claimed): every 200 response of the asset route carries an
\* X-Checksum-SHA256 header equal to the SHA-256 digest of exactly the body
\* bytes served, whether the body came from the cache or from a fresh fetch,
\* also when time advances between the handler's two cache reads.
C17_ChecksumHeaderMatchesBody ==
    \A q \in Observed :
        (q.status = 200 /\ q.path.route = "asset") =>
            /\ q.checksum.set
            /\ q.checksum.value # <<>>
            /\ q.checksum.value = Sha256(q.body)

\* the last answer the Release Source gave to a request
LastCall(q) == q.calls[Len(q.calls)]

\* C18: on a cache miss of the asset route, a release the client reports
\* absent and a release without the asset end in 404, and a download that
\* gives no bytes ends in 502; on the list route an empty result ends in 404.
\* At the download step the two are never confused: a 502 comes only from a
\* failed download and a failed download never gives 404.
C18_NotFoundAndUpstreamFailureDistinct ==
    \A q \in Observed :
        (q.pc = "done" /\ q.calls # <<>>) =>
            /\ (LastCall(q).call = "getRelease" /\ LastCall(q).resp \in {"error", "without_asset"})
                 => q.status = 404
            /\ (LastCall(q).call = "listReleases" /\ LastCall(q).resp \in {"error", "empty"})
                 => q.status = 404
            /\ (LastCall(q).call = "downloadAsset" /\ LastCall(q).resp \in {"error", "other"})
                 => q.status = 502
            /\ (LastCall(q).call = "downloadAsset" /\ LastCall(q).resp = "bytes")
                 => q.status = 200
            /\ q.status = 502 => LastCall(q).call = "downloadAsset"

\* a download failed after the release and its asset were found
C18_Witness ==
    /\ lastDone.status = 502
    /\ Len(lastDone.calls) = 2
    /\ lastDone.calls[1] = SourceCall("getRelease", "with_asset")
    /\ lastDone.calls[2].resp \in {"error", "other"}

\* C22: a signing key that cannot be loaded leaves the server without a
\* signer; a 200 response of the asset route carries X-Signature-RSA-SHA256
\* if and only if signing is enabled and the key file was loaded, on cache
\* hits and misses alike, and the signature is that of the bytes served.
C22_SignedIffSignerLoaded ==
    /\ signing.keyFile \in {"unset", "unreadable"} => assetSigner = "null"
    /\ \A q \in Observed :
          (q.status = 200 /\ q.path.route = "asset") =>
              /\ q.signature.set <=>
                    (signing.enabled /\ signing.keyFile \notin {"unset", "unreadable"})
              /\ q.signature.set => q.signature.value = Sign(signing.keyFile, q.body)

\* a signed response served from the cache, after the signed response that
\* stored the bytes
C22_Witness ==
    /\ lastDone.status = 200
    /\ lastDone.path.route = "asset"
    /\ lastDone.signature.set
    /\ lastDone.upstream = 0
    /\ lastDone.cacheReads = 1
    /\ lastDone.n = 2

\* C23: cache I/O failures never fail a request: a request that finds a
\* file it cannot read as an entry goes on to the Release Source as on a miss,
\* and a request whose cache write fails is still answered 200 with the
\* bytes it fetched; neither is answered 500.
C23_CacheFailuresNotFatal ==
    \A q \in Observed :
        /\ q.found = "unparsable" =>
              /\ q.upstream >= 1
              /\ q.calls # <<>> \/ InFlight(q)
              /\ q.status \in {0, 200, 404, 502}
        /\ q.wrote \in {"failed_untouched", "failed_truncated"} =>
              /\ q.status = 200
              /\ q.body \in UpstreamPayloads
              /\ LastCall(q).resp \in {"bytes", "some"}

\* a request found a file left by a failed write, fetched the bytes from the
\* Release Source, failed to store them and was answered 200
C23_Witness ==
    /\ lastDone.found = "unparsable"
    /\ lastDone.wrote = "failed_untouched"
    /\ lastDone.status = 200
    /\ lastDone.path.route = "asset"

\* the statuses of a request that was refused or whose fetch gave nothing
FailureStatuses == {400, 401, 404, 429, 502}

\* C31: the cache is written only once the fetch has come back with a payload.
\* A request answered 400, 401, 404, 429 or 502 has written nothing; a step
\* that changes a cache file is the step of a request whose last Release
\* Source call returned a payload and whose status is none of those; and every
\* entry in the cache holds, whole, a payload the Release Source returned,
\* the one last stored under its key.
C31_CacheWrittenAfterFetch ==
    [][/\ \A q \in {reqs'[r] : r \in Requests} \cup {lastDone'} :
             q.status \in FailureStatuses => q.cacheWrites = 0 /\ q.wrote = "none"
       /\ files' # files =>
             /\ lastDone'.status \notin FailureStatuses
             /\ lastDone'.cacheWrites = 1
             /\ lastDone'.calls # <<>>
             /\ lastDone'.calls[Len(lastDone'.calls)].resp \in {"bytes", "some"}
       /\ (lastDone' # lastDone /\ lastDone'.status \in FailureStatuses) => files' = files
       /\ \A key \in CacheKeys :
             FileAt(files', key).json =>
                 /\ key \in DOMAIN stores'
                 /\ stores'[key].bytes \in UpstreamPayloads
                 /\ FileAt(files', key).data = Base64Encode(stores'[key].bytes)]_vars

\* a download failed (502) for an asset nothing was stored for, while the
\* cache holds an entry another request stored
C31_Witness ==
    /\ lastDone.status = 502
    /\ lastDone.cacheWrites = 0
    /\ FoundAt(files, CacheKeyOf(lastDone.path)) = "absent"
    /\ \E key \in CacheKeys : FileAt(files, key).json

\* the request wrote over an entry that was stored after its own cache read:
\* another request missed the same key and stored while this one was fetching
RacedWrite(q) == q.wrote = "ok" /\ q.over.json /\ q.over # q.seen

\* C32: when two requests miss the same key and both fetch and store, the
\* later write replaces the earlier one whole: the file then holds the later
\* writer's bytes, their digest and its own time stamp, nothing of the earlier
\* entry, get and getChecksum (read at once) return that payload and that
\* digest, and the later writer is answered 200 with the bytes it fetched (on the asset route
\* with their digest in X-Checksum-SHA256).
C32_LastWriteWins ==
    RacedWrite(lastDone) =>
        LET key == CacheKeyOf(lastDone.path)
            file == FileAt(files, key)
        IN /\ lastDone.status = 200
           /\ lastDone.body \in UpstreamPayloads
           /\ lastDone.upstream >= 1
           /\ lastDone.path.route = "asset" => lastDone.checksum.value = Sha256(lastDone.body)
           /\ file.json
           /\ file.data = Base64Encode(lastDone.body)
           /\ file.checksum = Sha256(lastDone.body)
           /\ file.timestamp >= lastDone.over.timestamp
           /\ file.timestamp <= now
           /\ file.ttl = ttl
           /\ stores[key].bytes = lastDone.body
           /\ stores[key].at = file.timestamp
           /\ CacheGet(files, key, file.timestamp).hit
           /\ CacheGet(files, key, file.timestamp).bytes = lastDone.body
           /\ CacheGetChecksum(files, key, file.timestamp).checksum = Sha256(lastDone.body)

\* two requests for the same asset both missed; the second to finish stored
\* other bytes than the first had stored a moment before
C32_Witness ==
    /\ RacedWrite(lastDone)
    /\ lastDone.path.route = "asset"
    /\ lastDone.found = "absent"
    /\ lastDone.over.data # Base64Encode(lastDone.body)
    /\ lastDone.over.timestamp >= lastDone.readAt
    /\ arrivals = 2
    /\ \A r \in Requests : reqs[r].pc = "idle"

\* C26 (as claimed): every audit record with status failure carries a
\* reason code, and the code tells the cause: rate-limit for a 429, not-found
\* for a 404, upstream for a 502, authentication for a 401, validation for
\* a 400.
C26_FailureRecordsCarryReason ==
    \A q \in Observed :
        \A i \in 1..Len(q.audits) :
            q.audits[i].status = "failure" =>
                /\ q.audits[i].reason # ""
                /\ q.status = 429 => q.audits[i].reason = "rate_limited"
                /\ q.status = 404 =>
                      q.audits[i].reason \in {"not_found", "release_not_found", "asset_not_found"}
                /\ q.status = 502 => q.audits[i].reason = "download_failed"

\* C36 (as claimed): with method mtls every request a route handles ends in
\* 401 or 429.
C36_MtlsEndsIn401Or429 ==
    (method = "mtls" /\ lastDone.pc = "done") => lastDone.status \in {401, 429}

\* C36: with method mtls no request is authenticated, with the CA path
\* configured or not: a request whose path parameters are valid gets null from
\* the dispatcher, consumes the key anon:<ip> of its client address, reads no
\* cache, calls no Release Source and ends in 401 or 429; one whose path
\* parameters are invalid ends in 400 before authentication.
C36_MtlsNeverAuthenticated ==
    method = "mtls" =>
        \A q \in Observed :
            /\ q.auth \in {"none", "null"}
            /\ q.device = <<>>
            /\ q.cacheReads = 0 /\ q.cacheWrites = 0 /\ q.upstream = 0
            /\ q.pc \in {"idle", "auth", "done"}
            /\ q.pc = "done" =>
                  IF InvalidPath(q.path)
                  THEN q.status = 400 /\ q.auth = "none"
                  ELSE /\ q.auth = "null"
                       /\ q.status \in {401, 429}
                       /\ Len(q.consumed) = 1
                       /\ q.consumed[1].key = AnonKeyOf(q.headers)

\* with no CA path configured, a request that carries valid identity headers
\* is answered 401
C36_Witness ==
    /\ method = "mtls"
    /\ ~authConfigOk
    /\ lastDone.pc = "done"
    /\ lastDone.status = 401
    /\ lastDone.headers.device = <<"d", "e", "v", "1">>
    /\ lastDone.auth = "null"

\* the key has the form anon:<ip>
IsAnonKey(key) == StartsWith(key, AnonId(<<>>))

\* the limiter's state for one key changes in this step
KeyTouched(key) ==
    key \in DOMAIN limits' /\ (key \notin DOMAIN limits \/ limits'[key] # limits[key])

\* the request of slot r after this step
After(r) == IF reqs'[r].pc = "idle" THEN lastDone' ELSE reqs'[r]

\* the limiter's state for one key alone
OwnState(key) == [k \in {key} \cap DOMAIN limits |-> limits[k]]

\* C34: the device id of an authenticated request is a value validateDeviceId
\* returns, holds no ':' and is no key anon:<ip>.  A step changes the
\* limiter's state of one key at most, the key of the request that resumes
\* from authentication: its device id if it is authenticated, anon:<ip> of
\* its client address if not; and what that request is told (admitted or
\* denied, its rate-limit headers) follows from that key's state alone.
C34_DeviceAndAnonymousKeysApart ==
    [][/\ \A r \in Requests :
            (After(r).auth = "device" /\ method # "none") =>
                /\ ValidateDeviceId(After(r).device) = After(r).device
                /\ \A i \in 1..Len(After(r).device) : After(r).device[i] # ":"
                /\ ~IsAnonKey(After(r).device)
       /\ \A key \in DOMAIN limits' :
            KeyTouched(key) =>
                \E r \in Requests :
                    /\ reqs[r].pc = "auth"
                    /\ reqs'[r] # reqs[r]
                    /\ \A other \in DOMAIN limits' : KeyTouched(other) => other = key
                    /\ After(r).auth \in {"null", "device"}
                    /\ IsAnonKey(key) <=> After(r).auth = "null"
                    /\ After(r).auth = "null" => key = AnonKeyOf(After(r).headers)
                    /\ After(r).auth = "device" => key = After(r).device
                    /\ Len(After(r).consumed) = 1
                    /\ \E t2 \in ClockAfter(now) :
                          LET alone == RateLimitStep(OwnState(key), limit, key, now, t2)
                          IN /\ After(r).consumed[1] = Consumed(alone)
                             /\ After(r).rate = alone.headers
                             /\ limits'[key] = alone.limits[key]]_vars

\* a device at its limit and an unauthenticated caller side by side: the
\* caller's request is admitted under its own key (401), the device's state
\* is as it was
C34_Witness ==
    /\ method \in {"jamf", "tailscale"}
    /\ limit = 1
    /\ lastDone.auth = "null"
    /\ lastDone.status = 401
    /\ lastDone.consumed = <<[key |-> AnonId(<<"10.0.0.1">>), allowed |-> TRUE]>>
    /\ \E r \in Requests :
          /\ reqs[r].auth = "device"
          /\ reqs[r].device \in DOMAIN limits
          /\ limits[reqs[r].device].requests = limit

(***************************************************************************)
(* Claims about the awaits of a request task (checked under SpecWaits).    *)
(***************************************************************************)
\* C33 (as claimed): every request is answered, once: a task that has started
\* eventually holds exactly one response, whatever the identity API and the
\* Release Source do.
C33_EveryRequestAnswered ==
    [](task.pc \notin {"idle", "done"} => <>(task.pc = "done" /\ task.responses = 1))

(***************************************************************************)
(* Claims about the cache (checked under SpecCache).                       *)
(***************************************************************************)
\* C8: a get(k) that follows a successful set(k, b) with no other write to k
\* in between and no more than the TTL elapsed returns bytes equal to b,
\* whatever k held before the set.
C8_SetThenGetReturnsBytes ==
    (/\ lastGet.op = "get"
     /\ lastSet.op = "set"
     /\ lastSet.outcome = "ok"
     /\ lastGet.key = lastSet.key
     /\ now - lastSet.at <= ttl * 1000)
        => lastGet.hit /\ lastGet.bytes = lastSet.bytes

\* a get right after a set that overwrote a live entry holding other bytes
C8_Witness ==
    /\ lastGet.op = "get"
    /\ lastSet.op = "set"
    /\ lastSet.outcome = "ok"
    /\ lastSet.overwrote
    /\ lastGet.key = lastSet.key
    /\ lastSet.at = now
    /\ now > 0
    /\ lastGet.hit
    /\ Len(lastGet.bytes) = 4

\* C9: get(k) returns absent exactly when no entry exists for k or
\* now - stored_at > ttl_seconds * 1000 (an age equal to the TTL is live), and
\* get leaves the file of k as it was, also when the entry has expired.
C9_GetAbsentIffMissingOrExpired ==
    lastGet.op = "get" =>
        /\ ~lastGet.hit <=>
              \/ ~lastGet.had
              \/ ~lastGet.before.json
              \/ now - lastGet.before.timestamp > lastGet.before.ttl * 1000
        /\ lastGet.hadAfter = lastGet.had
        /\ lastGet.after = lastGet.before
        /\ GetCachePath(lastGet.key) \in DOMAIN files <=> lastGet.had
        /\ FileAt(files, lastGet.key) = lastGet.before

\* a get of an expired entry: absent, and the file still holds the entry
C9_Witness ==
    /\ lastGet.op = "get"
    /\ ~lastGet.hit
    /\ lastGet.had
    /\ lastGet.before.json
    /\ lastGet.before.ttl > 0
    /\ now - lastGet.before.timestamp > lastGet.before.ttl * 1000
    /\ FileAt(files, lastGet.key) = lastGet.before
    /\ FileAt(files, lastGet.key).json

\* C10: at any instant, checksum(k) is absent exactly when get(k) is absent,
\* and for a live entry it equals the SHA-256 digest of the bytes get(k)
\* returns.
C10_ChecksumMatchesGet ==
    /\ \A key \in CacheKeys :
          LET g == CacheGet(files, key, now)
              c == CacheGetChecksum(files, key, now)
          IN /\ c.hit <=> g.hit
             /\ g.hit => c.checksum = Sha256(g.bytes)
    /\ lastGet.op = "checksum" =>
          LET g == CacheGet(files, lastGet.key, now) IN
          /\ lastGet.hit <=> g.hit
          /\ g.hit => lastGet.checksum = Sha256(g.bytes)

\* getChecksum answered for a live, non-empty entry while the other key's
\* entry has expired
C10_Witness ==
    /\ lastGet.op = "checksum"
    /\ lastGet.hit
    /\ lastGet.checksum = Sha256(<<1, 255>>)
    /\ \E key \in CacheKeys :
          /\ GetCachePath(key) \in DOMAIN files
          /\ files[GetCachePath(key)].json
          /\ ~CacheGetChecksum(files, key, now).hit

(***************************************************************************)
(* Claims about the trust adapters (checked under SpecAdapters).           *)
(***************************************************************************)
\* the API answered 2xx with a body that confirms the device: for Jamf a
\* device_id that passes validation, for Tailscale a device list with an entry
\* whose id equals the claimed device header
Confirms(call) ==
    /\ call.api.kind = "ok"
    /\ call.adapter = "jamf" => ValidateDeviceId(call.api.device_id) # Rejected
    /\ call.adapter = "tailscale" => Trim(call.headers.device) \in call.api.devices

\* C19: with complete configuration, an adapter returns an identity only if
\* the identity API answered 2xx with a body that confirms the device; a
\* network error, a timeout, a non-2xx status or a malformed body gives null;
\* and the adapter never throws.
C19_AdaptersFailClosed ==
    (lastAuth.adapter # "none" /\ lastAuth.configOk) =>
        /\ lastAuth.result.kind # "throw"
        /\ lastAuth.result.kind = "device" => Confirms(lastAuth)
        /\ lastAuth.api.kind # "ok" => lastAuth.result = NoDevice

\* credentials that pass the header checks are presented to the Tailscale
\* adapter and the API's 2xx device list lacks the claimed device
C19_Witness ==
    /\ lastAuth.adapter = "tailscale"
    /\ lastAuth.configOk
    /\ ValidateUserHeader(lastAuth.headers.user) # Rejected
    /\ ValidateDeviceHeader(lastAuth.headers.device) # Rejected
    /\ lastAuth.api.kind = "ok"
    /\ lastAuth.api.devices # {}
    /\ ~Confirms(lastAuth)
    /\ lastAuth.result = NoDevice

\* C20 (as claimed): once validateConfig has accepted the configuration, no
\* trust adapter throws a configuration error while handling a request,
\* whatever credentials the request presents.
C20_AcceptedConfigNeverThrows ==
    (startup = "accepted" /\ lastAuth.adapter # "none") => lastAuth.result.kind # "throw"

(***************************************************************************)
(* Claims about the certificate adapter (checked under SpecMtls).          *)
(***************************************************************************)
\* the name the certificate offers as device id: its first
\* subject-alternative-name entry when it has one, else its first common name
OfferedName(cert) ==
    IF cert.altNames # <<>> THEN cert.altNames[1].value
    ELSE IF \E i \in 1..Len(cert.attributes) : cert.attributes[i].key = <<"C", "N">>
    THEN cert.attributes[
             CHOOSE i \in 1..Len(cert.attributes) :
                 /\ cert.attributes[i].key = <<"C", "N">>
                 /\ \A j \in 1..(i - 1) : cert.attributes[j].key # <<"C", "N">>].value
    ELSE <<>>

\* C21: the certificate adapter yields an identity only if the certificate's
\* validity window contains the clock reading, it verifies against the
\* configured CA, and its key usage, when present, includes digital
\* signature; the device_id is then the first subject-alternative-name entry
\* when one exists, else the common name.  With the CA configured, an expired,
\* not-yet-valid or CA-mismatched certificate, or a name failing validation,
\* yields no identity.
C21_CertificateAdapter ==
    lastAuth.adapter = "mtls" =>
        LET cert == lastAuth.cert IN
        /\ lastAuth.result.kind = "device" =>
              /\ cert.present /\ cert.parses /\ cert.datesFinite
              /\ cert.validFrom <= lastAuth.at /\ lastAuth.at <= cert.validTo
              /\ cert.signedBy = "ca"
              /\ cert.keyUsage.defined => "Digital Signature" \in cert.keyUsage.usages
              /\ lastAuth.result.device_id = OfferedName(cert)
              /\ ValidateDeviceId(OfferedName(cert)) # Rejected
        /\ (/\ cert.present /\ lastAuth.caPathSet
            /\ \/ lastAuth.at > cert.validTo
               \/ lastAuth.at < cert.validFrom
               \/ cert.signedBy # "ca"
               \/ ValidateDeviceId(OfferedName(cert)) = Rejected)
              => lastAuth.result = NoDevice

\* a certificate in its validity window, signed by the CA, carrying two
\* alternative names and a common name, is given the first alternative name
C21_Witness ==
    /\ lastAuth.adapter = "mtls"
    /\ lastAuth.result.kind = "device"
    /\ Len(lastAuth.cert.altNames) = 2
    /\ lastAuth.at = lastAuth.cert.validTo
    /\ lastAuth.result.device_id = <<"s", "2">>

(***************************************************************************)
(* Claims about resolveSafePath (checked under SpecPaths).                 *)
(***************************************************************************)
\* path lies in the directory base or below it
IsUnder(base, path) ==
    LET b == PathSegments(base)
        q == PathSegments(path)
    IN Len(q) >= Len(b) /\ SubSeq(q, 1, Len(b)) = b

\* C24 (as claimed): resolveSafePath(base, p) never returns a path outside
\* base: an input with a parent-directory segment or a NUL character is
\* rejected, and every result that is not a rejection lies under base.
C24_ResultUnderBase ==
    lastResolve.state = "returned" =>
        /\ (\/ IndexOf(lastResolve.inputPath, "NUL") # 0
            \/ \E i \in 1..Len(RawSegments(lastResolve.inputPath)) :
                  RawSegments(lastResolve.inputPath)[i] = <<".", ".">>)
              => lastResolve.result = Rejected
        /\ lastResolve.result # Rejected => IsUnder(lastResolve.baseDir, lastResolve.result)

(***************************************************************************)
(* Claims about the cache over a disk that alters files (SpecDisk).        *)
(***************************************************************************)
\* C11 (as claimed): get(k) never returns bytes whose SHA-256 digest differs
\* from the checksum stored in the entry it read; an entry whose payload no
\* longer matches its checksum is a miss.
C11_GetNeverServesCorrupted ==
    (lastGet.op = "get" /\ lastGet.hit)
        => Sha256(lastGet.bytes) = lastGet.before.checksum

=============================================================================
